---- MODULE Spec2Model ----
(***************************************************************************)
(* kenken64/brownbag-ai-demo: the circuit-breaker state manager            *)
(* (src/src/circuit_breaker_state.py), its callers (the spike workflow of  *)
(* src/src/spike_trading_crew.py) and the decision cycles of the two       *)
(* trading bots (src/src/trading_bot.py, src/rl_trading_bot.py).           *)
(*                                                                         *)
(* Every method of CircuitBreakerState runs inside `with self.lock:`, and  *)
(* self.lock is a threading.Lock.  trigger, set_warning and start_recovery *)
(* call self.get_status() while they hold it, and get_status enters        *)
(* `with self.lock:` again.  Two specifications are given:                 *)
(*   SpecLock  the lock as threading.Lock grants it: the nested entry      *)
(*             waits for a release that never comes;                       *)
(*   Spec      the statements of the methods in the order the source       *)
(*             writes them, the nested entry of the holder being granted,  *)
(*             so that the transition logic behind the lock is exercised   *)
(*             (the statuses WARNING, TRIGGERED and RECOVERING exist only  *)
(*             here).                                                      *)
(* SpecBot runs the bots' decision cycles next to the breaker of Spec.     *)
(*                                                                         *)
(* The functions the cycles are built from are run on their own inputs:    *)
(*   SpecScore       the two signal scorers (src/src/indicators.py,        *)
(*                   src/technical_indicators.py);                         *)
(*   SpecDiscretize  QLearningAgent._discretize on the threshold lists of  *)
(*                   get_state_key (src/src/rl_model.py);                  *)
(*   SpecLearn       update_q_value and the confidence of QLearningAgent   *)
(*                   and of QLearningTrader (src/q_learning_model.py);     *)
(*   SpecConverge    update_q_value repeated on one pair;                  *)
(*   SpecReplay      the replay buffer, replay and epsilon decay;          *)
(*   SpecReward      the two calculate_reward functions;                   *)
(*   SpecStreak      QLearningTrader.calculate_reward called repeatedly;   *)
(*   SpecPersist     save_model and load_model of both classes;            *)
(*   SpecTable       every operation on the Q-table;                       *)
(*   SpecStateKey    the state key of a decision cycle;                    *)
(*   SpecTools       the guardian's warning and recovery tools.            *)
(*                                                                         *)
(* Not modelled: the Redis branches (use_redis is never passed as True),   *)
(* last_check_at / update_last_check and false_triggers /                  *)
(* mark_false_trigger.                                                     *)
(***************************************************************************)
EXTENDS Integers, Sequences, FiniteSets, TLC

VARIABLES
    now,                      \* datetime.now(), in whole seconds
    _circuit_breaker_state,   \* the module global: 0 (None) or an instance id
    created,                  \* number of CircuitBreakerState objects constructed
    cb,                       \* cb[t]: the handle thread t holds (0: none yet)
    _state,                   \* _state[i]: the dict self._state of instance i
    lock,                     \* lock[i]: "free" or the thread holding self.lock
    stable,                   \* stable[i]: _state[i] as of the last release of lock[i]
    pc, op, k,                \* per thread: position, method being run, statement index
    arg, loc, ret,            \* per thread: arguments, locals, last return value
    workflow_result,          \* the spike workflow on the main thread
    tool_result,              \* the guardian's tool in progress and its last report
    bot,                      \* the trading bot program that runs ("None": none)
    current_position,         \* the bot's open position: "None", "LONG" or "SHORT"
    cycle,                    \* the bot's last decision cycle: its inputs and outcome
    agent,                    \* the learning class in use ("None": none)
    q_table,                  \* self.q_table: state key -> the three action-values
    epsilon,                  \* self.epsilon
    experience_buffer,        \* self.experience_buffer, a deque(maxlen=buffer_size)
    win_streak, loss_streak,  \* the streak counters of QLearningTrader
    stored,                   \* every experience stored (SpecStreak: the pnl and
                              \* trend of every reward call) so far, oldest first
    total_states_learned,     \* self.total_states_learned of QLearningAgent
    total_episodes,           \* self.total_episodes
    model_file,               \* the file at the model path
    call                      \* the last call: method, arguments, result

breaker == <<now, _circuit_breaker_state, created, cb, _state, lock, stable,
             pc, op, k, arg, loc, ret>>

trading == <<bot, current_position, cycle>>

learning == <<agent, q_table, epsilon, experience_buffer, win_streak, loss_streak,
              stored, total_states_learned, total_episodes, model_file, call>>

\* what the breaker's own steps leave alone
callers == <<workflow_result, tool_result, trading, learning>>

vars == <<breaker, workflow_result, tool_result, trading, learning>>

(***************************************************************************)
(* Bounds of the model.                                                    *)
(***************************************************************************)
MaxTime == 2
MaxTriggers == 2
MaxCapital == 1
MaxInstances == 2

Threads == {"main", "guardian"}
Instances == 1..MaxInstances

(***************************************************************************)
(* CircuitBreakerStatus and the values the fields take.  A timestamp is a  *)
(* clock reading >= 1; None is 0 for timestamps and "None" for strings;    *)
(* the empty dict is "{}".                                                 *)
(***************************************************************************)
CircuitBreakerStatus == {"SAFE", "WARNING", "TRIGGERED", "RECOVERING"}

TriggerInputs ==
    { [reason |-> "r1", details |-> "d1", market_snapshot |-> "m1", capital_saved |-> 0],
      [reason |-> "r2", details |-> "d2", market_snapshot |-> "None", capital_saved |-> 0] }

WarningInputs ==
    { [reason |-> "w1", details |-> "dw", market_snapshot |-> "None", capital_saved |-> 0] }

ClearInputs ==
    { [reason |-> "None", details |-> "None", market_snapshot |-> "None", capital_saved |-> c] :
        c \in 0..1 }

NoArg == [reason |-> "None", details |-> "None", market_snapshot |-> "None", capital_saved |-> 0]
NoLoc == [current_status |-> "None", ts |-> 0, downtime_seconds |-> 0]
\* a return value: val is the value of a scalar return ("None": no return
\* value), state the dict a reader got (<<>>: none, <<d>>: the dict d)
NoRet == [val |-> "None", state |-> <<>>]

\* CircuitBreakerState.__init__: the in-memory dict
InitialState ==
    [ status |-> "SAFE",
      triggered_at |-> 0,
      trigger_reason |-> "None",
      trigger_details |-> "{}",
      recovery_started_at |-> 0,
      market_snapshot |-> "{}",
      downtime_seconds |-> 0,
      capital_saved |-> 0,
      total_triggers |-> 0 ]

Self(t) == cb[t]

(***************************************************************************)
(* `with self.lock:` on a threading.Lock.                                  *)
(***************************************************************************)
\* the outermost entry: granted when nobody holds the lock
CanAcquire(i, t) == lock[i] = "free"

\* leaving the with-block: the lock is released; what was written is now
\* what every later holder sees
Release(t, st) ==
    /\ lock' = [lock EXCEPT ![Self(t)] = "free"]
    /\ stable' = [stable EXCEPT ![Self(t)] = st]

Return(t, value) ==
    /\ pc' = [pc EXCEPT ![t] = "idle"]
    /\ op' = [op EXCEPT ![t] = "None"]
    /\ k' = [k EXCEPT ![t] = 0]
    /\ arg' = [arg EXCEPT ![t] = NoArg]
    /\ loc' = [loc EXCEPT ![t] = NoLoc]
    /\ ret' = [ret EXCEPT ![t] = value]

\* a caller on thread t invokes method m of its handle with arguments a
Call(t, m, a) ==
    /\ pc[t] = "idle"
    /\ Self(t) # 0
    /\ pc' = [pc EXCEPT ![t] = "lock"]
    /\ op' = [op EXCEPT ![t] = m]
    /\ arg' = [arg EXCEPT ![t] = a]
    /\ ret' = [ret EXCEPT ![t] = NoRet]
    /\ UNCHANGED <<now, _circuit_breaker_state, created, cb, _state, lock, stable, k, loc>>

\* datetime.now() advances
Tick ==
    /\ now < MaxTime
    /\ now' = now + 1
    /\ UNCHANGED <<callers, _circuit_breaker_state, created, cb, _state, lock, stable,
                   pc, op, k, arg, loc, ret>>

(***************************************************************************)
(* get_status                                                              *)
(***************************************************************************)
get_status_enter(t) ==
    /\ pc[t] = "lock" /\ op[t] = "get_status"
    /\ CanAcquire(Self(t), t)
    /\ lock' = [lock EXCEPT ![Self(t)] = t]
    /\ pc' = [pc EXCEPT ![t] = "read"]
    /\ UNCHANGED <<callers, now, _circuit_breaker_state, created, cb, _state, stable, op, k, arg, loc, ret>>

get_status_return(t) ==
    /\ pc[t] = "read" /\ op[t] = "get_status"
    /\ Release(t, _state[Self(t)])
    /\ Return(t, [NoRet EXCEPT !.val = _state[Self(t)].status])
    /\ UNCHANGED <<callers, now, _circuit_breaker_state, created, cb, _state>>

(***************************************************************************)
(* trigger                                                                 *)
(***************************************************************************)
trigger_enter(t) ==
    /\ pc[t] = "lock" /\ op[t] = "trigger"
    /\ CanAcquire(Self(t), t)
    /\ lock' = [lock EXCEPT ![Self(t)] = t]
    /\ pc' = [pc EXCEPT ![t] = "get_status"]
    /\ UNCHANGED <<callers, now, _circuit_breaker_state, created, cb, _state, stable, op, k, arg, loc, ret>>

\* the in-memory assignments of trigger, in source order
trigger_writes(a, l, st) ==
    << <<"status", "TRIGGERED">>,
       <<"triggered_at", l.ts>>,
       <<"trigger_reason", a.reason>>,
       <<"trigger_details", a.details>>,
       <<"market_snapshot", IF a.market_snapshot = "None" THEN "{}" ELSE a.market_snapshot>>,
       <<"total_triggers", st.total_triggers + 1>> >>

\* current_status = self.get_status(), the nested entry granted; then the
\* re-trigger check and triggered_at = datetime.now().isoformat()
trigger_check(t) ==
    /\ pc[t] = "get_status" /\ op[t] = "trigger"
    /\ lock[Self(t)] = t
    /\ IF _state[Self(t)].status = "TRIGGERED"
       THEN /\ Release(t, _state[Self(t)])
            /\ Return(t, [NoRet EXCEPT !.val = "False"])
       ELSE /\ pc' = [pc EXCEPT ![t] = "write"]
            /\ k' = [k EXCEPT ![t] = 1]
            /\ loc' = [loc EXCEPT ![t] = [NoLoc EXCEPT !.current_status = _state[Self(t)].status,
                                                       !.ts = now]]
            /\ UNCHANGED <<lock, stable, op, arg, ret>>
    /\ UNCHANGED <<callers, now, _circuit_breaker_state, created, cb, _state>>

\* one assignment of the list ws per step; the with-block ends after the last
Assign(t, ws, value) ==
    LET w == ws[k[t]]
        st == [_state[Self(t)] EXCEPT ![w[1]] = w[2]]
    IN  /\ _state' = [_state EXCEPT ![Self(t)] = st]
        /\ IF k[t] < Len(ws)
           THEN /\ k' = [k EXCEPT ![t] = k[t] + 1]
                /\ UNCHANGED <<lock, stable, pc, op, arg, loc, ret>>
           ELSE /\ Release(t, st)
                /\ Return(t, value)
        /\ UNCHANGED <<callers, now, _circuit_breaker_state, created, cb>>

trigger_write(t) ==
    /\ pc[t] = "write" /\ op[t] = "trigger"
    /\ Assign(t, trigger_writes(arg[t], loc[t], _state[Self(t)]), [NoRet EXCEPT !.val = "True"])

(***************************************************************************)
(* set_warning                                                             *)
(***************************************************************************)
set_warning_enter(t) ==
    /\ pc[t] = "lock" /\ op[t] = "set_warning"
    /\ CanAcquire(Self(t), t)
    /\ lock' = [lock EXCEPT ![Self(t)] = t]
    /\ pc' = [pc EXCEPT ![t] = "get_status"]
    /\ UNCHANGED <<callers, now, _circuit_breaker_state, created, cb, _state, stable, op, k, arg, loc, ret>>

set_warning_writes(a, l, st) ==
    << <<"status", "WARNING">>,
       <<"trigger_reason", a.reason>>,
       <<"trigger_details", a.details>> >>

\* current_status = self.get_status(); only set warning if currently SAFE
set_warning_check(t) ==
    /\ pc[t] = "get_status" /\ op[t] = "set_warning"
    /\ lock[Self(t)] = t
    /\ IF _state[Self(t)].status # "SAFE"
       THEN /\ Release(t, _state[Self(t)])
            /\ Return(t, NoRet)
       ELSE /\ pc' = [pc EXCEPT ![t] = "write"]
            /\ k' = [k EXCEPT ![t] = 1]
            /\ loc' = [loc EXCEPT ![t] = [NoLoc EXCEPT !.current_status = _state[Self(t)].status]]
            /\ UNCHANGED <<lock, stable, op, arg, ret>>
    /\ UNCHANGED <<callers, now, _circuit_breaker_state, created, cb, _state>>

set_warning_write(t) ==
    /\ pc[t] = "write" /\ op[t] = "set_warning"
    /\ Assign(t, set_warning_writes(arg[t], loc[t], _state[Self(t)]), NoRet)

(***************************************************************************)
(* start_recovery                                                          *)
(***************************************************************************)
start_recovery_enter(t) ==
    /\ pc[t] = "lock" /\ op[t] = "start_recovery"
    /\ CanAcquire(Self(t), t)
    /\ lock' = [lock EXCEPT ![Self(t)] = t]
    /\ pc' = [pc EXCEPT ![t] = "get_status"]
    /\ UNCHANGED <<callers, now, _circuit_breaker_state, created, cb, _state, stable, op, k, arg, loc, ret>>

start_recovery_writes(a, l, st) ==
    << <<"status", "RECOVERING">>,
       <<"recovery_started_at", l.ts>> >>

\* a variant whose guard lets every status but SAFE through
start_recovery_check_unsafe(t) ==
    /\ pc[t] = "get_status" /\ op[t] = "start_recovery"
    /\ lock[Self(t)] = t
    /\ IF _state[Self(t)].status = "SAFE"
       THEN /\ Release(t, _state[Self(t)])
            /\ Return(t, NoRet)
       ELSE /\ pc' = [pc EXCEPT ![t] = "write"]
            /\ k' = [k EXCEPT ![t] = 1]
            /\ loc' = [loc EXCEPT ![t] = [NoLoc EXCEPT !.current_status = _state[Self(t)].status,
                                                       !.ts = now]]
            /\ UNCHANGED <<lock, stable, op, arg, ret>>
    /\ UNCHANGED <<callers, now, _circuit_breaker_state, created, cb, _state>>

\* if self.get_status() != TRIGGERED: return; recovery_started_at = now
start_recovery_check(t) ==
    /\ pc[t] = "get_status" /\ op[t] = "start_recovery"
    /\ lock[Self(t)] = t
    /\ IF _state[Self(t)].status # "TRIGGERED"
       THEN /\ Release(t, _state[Self(t)])
            /\ Return(t, NoRet)
       ELSE /\ pc' = [pc EXCEPT ![t] = "write"]
            /\ k' = [k EXCEPT ![t] = 1]
            /\ loc' = [loc EXCEPT ![t] = [NoLoc EXCEPT !.current_status = _state[Self(t)].status,
                                                       !.ts = now]]
            /\ UNCHANGED <<lock, stable, op, arg, ret>>
    /\ UNCHANGED <<callers, now, _circuit_breaker_state, created, cb, _state>>

start_recovery_write(t) ==
    /\ pc[t] = "write" /\ op[t] = "start_recovery"
    /\ Assign(t, start_recovery_writes(arg[t], loc[t], _state[Self(t)]), NoRet)

(***************************************************************************)
(* clear                                                                   *)
(***************************************************************************)
\* downtime_seconds = 0; if self._state["triggered_at"]: int((now - triggered_at).total_seconds())
downtime(st, clock) == IF st.triggered_at # 0 THEN clock - st.triggered_at ELSE 0

\* with self.lock: and the downtime calculation
clear_enter(t) ==
    /\ pc[t] = "lock" /\ op[t] = "clear"
    /\ CanAcquire(Self(t), t)
    /\ lock' = [lock EXCEPT ![Self(t)] = t]
    /\ pc' = [pc EXCEPT ![t] = "write"]
    /\ k' = [k EXCEPT ![t] = 1]
    /\ loc' = [loc EXCEPT ![t] = [NoLoc EXCEPT !.downtime_seconds = downtime(_state[Self(t)], now)]]
    /\ UNCHANGED <<callers, now, _circuit_breaker_state, created, cb, _state, stable, op, arg, ret>>

\* a variant that forgets to reset recovery_started_at
clear_writes_keeping_recovery(a, l, st) ==
    << <<"status", "SAFE">>,
       <<"downtime_seconds", l.downtime_seconds>>,
       <<"capital_saved", st.capital_saved + a.capital_saved>>,
       <<"triggered_at", 0>>,
       <<"trigger_reason", "None">>,
       <<"trigger_details", "{}">> >>

clear_writes(a, l, st) ==
    << <<"status", "SAFE">>,
       <<"downtime_seconds", l.downtime_seconds>>,
       <<"capital_saved", st.capital_saved + a.capital_saved>>,
       <<"triggered_at", 0>>,
       <<"trigger_reason", "None">>,
       <<"trigger_details", "{}">>,
       <<"recovery_started_at", 0>> >>

clear_write(t) ==
    /\ pc[t] = "write" /\ op[t] = "clear"
    /\ Assign(t, clear_writes(arg[t], loc[t], _state[Self(t)]), NoRet)

(***************************************************************************)
(* get_full_state and get_stats                                            *)
(***************************************************************************)
\* a variant that reads without taking self.lock
get_full_state_enter_unlocked(t) ==
    /\ pc[t] = "lock" /\ op[t] = "get_full_state"
    /\ pc' = [pc EXCEPT ![t] = "read"]
    /\ UNCHANGED <<callers, now, _circuit_breaker_state, created, cb, _state, lock, stable,
                   op, k, arg, loc, ret>>

get_full_state_enter(t) ==
    /\ pc[t] = "lock" /\ op[t] = "get_full_state"
    /\ CanAcquire(Self(t), t)
    /\ lock' = [lock EXCEPT ![Self(t)] = t]
    /\ pc' = [pc EXCEPT ![t] = "read"]
    /\ UNCHANGED <<callers, now, _circuit_breaker_state, created, cb, _state, stable, op, k, arg, loc, ret>>

\* return self._state.copy()
get_full_state_return(t) ==
    /\ pc[t] = "read" /\ op[t] = "get_full_state"
    /\ Release(t, _state[Self(t)])
    /\ Return(t, [val |-> "None", state |-> <<_state[Self(t)]>>])
    /\ UNCHANGED <<callers, now, _circuit_breaker_state, created, cb, _state>>

\* get_stats: the statistics read off the dict get_full_state returned
get_stats(state) ==
    [ total_triggers |-> state.total_triggers,
      total_downtime_seconds |-> state.downtime_seconds,
      capital_saved |-> state.capital_saved ]

(***************************************************************************)
(* SpikeTradingCrew.execute_spike_trading_workflow, on the thread that     *)
(* calls it.  Stage 1 asks the breaker; stages 2-4 are the scanner, the    *)
(* context analyser and the risk agent (each an LLM crew that may fail;    *)
(* spike_detected = True and risk_decision = "APPROVE" are constants of    *)
(* the source); stage 5 hands the trade to the executor.                   *)
(***************************************************************************)
NoWorkflow == [stage |-> "None", auto_execute |-> FALSE, final_decision |-> "None"]

\* no tool of src/src/tools/circuit_breaker_tools.py in progress, none
\* finished; result: the "success" and "status" of the JSON it returned
NoReport == [success |-> "None", status |-> "None"]
NoTool == [tool |-> "None", stage |-> "None", result |-> NoReport]

Finish(decision) ==
    workflow_result' = [workflow_result EXCEPT !.stage = "None", !.final_decision = decision]

\* STAGE 1, the call: self.cb_state.is_safe() -> self.get_status()
execute_spike_trading_workflow(t) ==
    /\ workflow_result.stage = "None"
    /\ \E auto_execute \in BOOLEAN :
        workflow_result' = [stage |-> "stage1", auto_execute |-> auto_execute,
                            final_decision |-> "None"]
    /\ Call(t, "get_status", NoArg)
    /\ UNCHANGED <<tool_result, trading, learning>>

\* is_safe: self.get_status() == CircuitBreakerStatus.SAFE
is_safe(status) == status = "SAFE"

\* STAGE 1, the answer: if not self.cb_state.is_safe(): REJECTED
workflow_circuit_breaker_check(t) ==
    /\ workflow_result.stage = "stage1"
    /\ pc[t] = "idle"
    /\ IF ~is_safe(ret[t].val)
       THEN Finish("REJECTED")
       ELSE workflow_result' = [workflow_result EXCEPT !.stage = "stage2"]
    /\ UNCHANGED <<breaker, tool_result, trading, learning>>

\* STAGES 2-4: scan_symbol, analyze_spike_context, assess_trade_risk
workflow_analysis(t) ==
    /\ workflow_result.stage = "stage2"
    /\ \E success \in BOOLEAN :
        IF ~success
        THEN Finish("ERROR")
        ELSE IF ~workflow_result.auto_execute
             THEN Finish("APPROVED_NOT_EXECUTED")
             ELSE workflow_result' = [workflow_result EXCEPT !.stage = "stage5"]
    /\ UNCHANGED <<breaker, tool_result, trading, learning>>

\* STAGE 5: self.executor.execute_trade(...)
workflow_execution(t) ==
    /\ workflow_result.stage = "stage5"
    /\ \E success \in BOOLEAN :
        Finish(IF success THEN "EXECUTED" ELSE "EXECUTION_FAILED")
    /\ UNCHANGED <<breaker, tool_result, trading, learning>>

(***************************************************************************)
(* The program once CrewAISpikeAgent.__init__ has obtained the instance:   *)
(* the market-guardian thread drives the breaker through its tools, the    *)
(* main thread reads it and runs the spike workflow.                       *)
(***************************************************************************)
InitBreaker ==
    /\ now = 1
    /\ _state = [i \in Instances |-> InitialState]
    /\ lock = [i \in Instances |-> "free"]
    /\ stable = [i \in Instances |-> InitialState]
    /\ pc = [t \in Threads |-> "idle"]
    /\ op = [t \in Threads |-> "None"]
    /\ k = [t \in Threads |-> 0]
    /\ arg = [t \in Threads |-> NoArg]
    /\ loc = [t \in Threads |-> NoLoc]
    /\ ret = [t \in Threads |-> NoRet]
    /\ workflow_result = NoWorkflow
    /\ tool_result = NoTool

\* no trading bot in the process that hosts the breaker
NoCycle ==
    [reason |-> "None", signal |-> "None", signal_strength |-> 0, rl_action |-> "None",
     confidence |-> 0, position |-> "None", pnl |-> 0, final_decision |-> "None",
     order |-> "None"]

InitNoBot ==
    /\ bot = "None"
    /\ current_position = "None"
    /\ cycle = NoCycle

InitInstance ==
    /\ _circuit_breaker_state = 1
    /\ created = 1
    /\ cb = [t \in Threads |-> 1]

\* no learning agent in the process that hosts the breaker
\* n: the number of calls made so far
NoCall == [method |-> "None", args |-> <<>>, result |-> <<>>, n |-> 0]

\* the file at the model path: whether os.path.exists finds it, and what
\* pickle.load gives for it (<<>>: it raises, <<d>>: the dict d)
MissingFile == [exists |-> FALSE, pickle |-> <<>>]
CorruptFile == [exists |-> TRUE, pickle |-> <<>>]

InitNoAgent ==
    /\ agent = "None"
    /\ q_table = <<>>
    /\ epsilon = 0
    /\ experience_buffer = <<>>
    /\ win_streak = 0
    /\ loss_streak = 0
    /\ stored = <<>>
    /\ total_states_learned = 0
    /\ total_episodes = 0
    /\ model_file = MissingFile
    /\ call = NoCall

Init ==
    /\ InitBreaker
    /\ InitInstance
    /\ InitNoBot
    /\ InitNoAgent

\* the market guardian's tools: trigger, set warning, start recovery, clear
GuardianCalls(t) ==
    \/ \E a \in TriggerInputs :
        /\ Self(t) # 0
        /\ _state[Self(t)].total_triggers < MaxTriggers
        /\ Call(t, "trigger", a)
        /\ UNCHANGED callers
    \/ \E a \in WarningInputs : Call(t, "set_warning", a) /\ UNCHANGED callers
    \/ Call(t, "start_recovery", NoArg) /\ UNCHANGED callers
    \/ \E a \in ClearInputs :
        /\ Self(t) # 0
        /\ _state[Self(t)].capital_saved + a.capital_saved <= MaxCapital
        /\ Call(t, "clear", a)
        /\ UNCHANGED callers

\* the readers: is_safe / get_status, get_stats / get_full_state
ReaderCalls(t) ==
    \/ Call(t, "get_status", NoArg) /\ UNCHANGED callers
    \/ Call(t, "get_full_state", NoArg) /\ UNCHANGED callers

Workflow(t) ==
    \/ execute_spike_trading_workflow(t)
    \/ workflow_circuit_breaker_check(t)
    \/ workflow_analysis(t)
    \/ workflow_execution(t)

\* the steps the methods take at and inside their own `with self.lock:`
Status(t) ==
    \/ get_status_enter(t)
    \/ get_status_return(t)

Stats(t) ==
    \/ get_full_state_enter(t)
    \/ get_full_state_return(t)

Transitions(t) ==
    \/ trigger_enter(t)
    \/ set_warning_enter(t)
    \/ start_recovery_enter(t)
    \/ clear_enter(t)
    \/ clear_write(t)

Locked(t) == Status(t) \/ Stats(t) \/ Transitions(t)

\* the steps behind the nested self.get_status() of trigger, set_warning
\* and start_recovery
Nested(t) ==
    \/ trigger_check(t)
    \/ trigger_write(t)
    \/ set_warning_check(t)
    \/ set_warning_write(t)
    \/ start_recovery_check(t)
    \/ start_recovery_write(t)

Next ==
    \/ Tick
    \/ GuardianCalls("guardian")
    \/ ReaderCalls("main")
    \/ \E t \in Threads : Locked(t)
    \/ \E t \in Threads : Nested(t)

Spec == Init /\ [][Next]_vars

\* a thread inside a method goes on, and a thread that finds the lock free
\* again and again gets it; nothing obliges a caller to call
FairSpec == Spec /\ \A t \in Threads : SF_vars(Locked(t) \/ Nested(t))

(***************************************************************************)
(* SpecCrew: the spike workflow on the main thread next to the guardian.   *)
(***************************************************************************)
NextCrew ==
    \/ GuardianCalls("guardian")
    \/ Workflow("main")
    \/ Status("main")
    \/ Transitions("guardian")
    \/ Nested("guardian")

SpecCrew == Init /\ [][NextCrew]_vars

(***************************************************************************)
(* get_circuit_breaker_state(): the module-level singleton accessor.  The  *)
(* test of the global and the assignment to it are separate statements,    *)
(* and nothing orders two threads that run them.                           *)
(***************************************************************************)
\* if _circuit_breaker_state is None:
get_circuit_breaker_state_check(t) ==
    /\ pc[t] = "idle" /\ cb[t] = 0
    /\ pc' = [pc EXCEPT ![t] = IF _circuit_breaker_state = 0 THEN "new" ELSE "return"]
    /\ op' = [op EXCEPT ![t] = "get_circuit_breaker_state"]
    /\ UNCHANGED <<callers, now, _circuit_breaker_state, created, cb, _state, lock, stable, k, arg, loc, ret>>

\* _circuit_breaker_state = CircuitBreakerState(...)
get_circuit_breaker_state_new(t) ==
    /\ pc[t] = "new" /\ op[t] = "get_circuit_breaker_state"
    /\ created' = created + 1
    /\ _circuit_breaker_state' = created + 1
    /\ pc' = [pc EXCEPT ![t] = "return"]
    /\ UNCHANGED <<callers, now, cb, _state, lock, stable, op, k, arg, loc, ret>>

\* return _circuit_breaker_state
get_circuit_breaker_state_return(t) ==
    /\ pc[t] = "return" /\ op[t] = "get_circuit_breaker_state"
    /\ cb' = [cb EXCEPT ![t] = _circuit_breaker_state]
    /\ pc' = [pc EXCEPT ![t] = "idle"]
    /\ op' = [op EXCEPT ![t] = "None"]
    /\ UNCHANGED <<callers, now, _circuit_breaker_state, created, _state, lock, stable, k, arg, loc, ret>>

get_circuit_breaker_state(t) ==
    \/ get_circuit_breaker_state_check(t)
    \/ get_circuit_breaker_state_new(t)
    \/ get_circuit_breaker_state_return(t)

(***************************************************************************)
(* SpecLock: the process from its start, self.lock as threading.Lock       *)
(* grants it.  Each thread obtains its handle from                         *)
(* get_circuit_breaker_state() and then calls the methods.  A thread at    *)
(* the nested self.get_status() of trigger, set_warning or start_recovery  *)
(* needs CanAcquire on a lock it holds itself, so the steps of Nested are  *)
(* never taken and are not part of NextLock.                               *)
(***************************************************************************)
InitLock ==
    /\ InitBreaker
    /\ _circuit_breaker_state = 0
    /\ created = 0
    /\ cb = [t \in Threads |-> 0]
    /\ InitNoBot
    /\ InitNoAgent

ThreadLock(t) == get_circuit_breaker_state(t) \/ Locked(t)

NextLock ==
    \/ Tick
    \/ GuardianCalls("guardian")
    \/ ReaderCalls("main")
    \/ \E t \in Threads : ThreadLock(t)

SpecLock == InitLock /\ [][NextLock]_vars

\* a thread inside a function or method goes on, and a thread that finds the
\* lock free again and again gets it
FairSpecLock == SpecLock /\ \A t \in Threads : SF_vars(ThreadLock(t))
(***************************************************************************)
(* The trading bots.  Two programs: src/src/trading_bot.py (its cycle is   *)
(* run_trading_cycle) and src/rl_trading_bot.py (its cycle is              *)
(* run_iteration).  Confidence is in hundredths, PnL in basis points of    *)
(* the entry price.                                                        *)
(***************************************************************************)
min_signal_threshold == 3
\* the literal 0.3 of both gates, the literal 0.5 of the exits
min_confidence == 30
high_confidence == 50
\* -self.stop_loss_pct * 0.8 and self.take_profit_pct of src/src/trading_bot.py
cut_loss_pct == -160
take_profit_pct == 500

BotPrograms == {"trading_bot", "rl_trading_bot"}
ACTION_NAMES == {"BUY", "SELL", "HOLD"}
StrengthValues == {-3, 0, 3}
ConfidenceValues == {0, 29, 30, 50, 51}
PnlValues == {-200, -100, 0, 100, 600}

\* "Determine signal type" of SignalGenerator.generate_signal
signal_type(signal_strength) ==
    IF signal_strength >= min_signal_threshold THEN "BUY"
    ELSE IF signal_strength <= -min_signal_threshold THEN "SELL"
    ELSE "HOLD"

\* check_position_management: the reason it closes the position for
check_position_management(position, pnl_pct) ==
    IF position = "None" THEN "None"
    ELSE IF pnl_pct < cut_loss_pct THEN "Stop Loss"
    ELSE IF pnl_pct > take_profit_pct THEN "Take Profit"
    ELSE "None"

\* a variant of the gate that only stops a negative confidence
confidence_negative(confidence) == confidence < 0

\* if confidence < 0.3 (src/src/trading_bot.py)
confidence_too_low(confidence) == confidence < min_confidence

\* _make_trading_decision: the order it asks for ("HOLD": none)
_make_trading_decision(signal, signal_strength, rl_action_name, confidence, position, pnl_pct) ==
    IF confidence_too_low(confidence) THEN "HOLD"
    ELSE IF position = "None"
    THEN IF /\ signal_strength >= min_signal_threshold
            /\ signal = "BUY"
            /\ rl_action_name = "BUY"
         THEN "BUY"
         ELSE "HOLD"
    ELSE IF position = "LONG"
    THEN IF pnl_pct < 0 /\ signal = "HOLD" THEN "SELL"
         ELSE IF pnl_pct > 0 /\ signal = "HOLD" THEN "HOLD"
         ELSE IF signal_strength <= -min_signal_threshold /\ signal = "SELL" THEN "SELL"
         ELSE IF rl_action_name = "SELL" /\ confidence > high_confidence THEN "SELL"
         ELSE "HOLD"
    ELSE "HOLD"

\* one cycle of src/src/trading_bot.py on the market data held in cycle.
\* ready: the daily loss limit is not reached and the market data and the
\* indicators are there; closed, filled: the exchange carries out the order
\* of check_position_management, of _make_trading_decision
run_trading_cycle ==
    /\ bot = "trading_bot"
    /\ \E ready, closed, filled \in BOOLEAN :
        LET pnl_pct == IF current_position = "None" THEN 0 ELSE cycle.pnl
            exit == check_position_management(current_position, pnl_pct)
            signal == signal_type(cycle.signal_strength)
            decision == _make_trading_decision(signal, cycle.signal_strength, cycle.rl_action,
                                               cycle.confidence, current_position, pnl_pct)
            order == IF decision # "HOLD" /\ filled THEN decision ELSE "None"
        IN  IF ~ready
            THEN /\ cycle' = [cycle EXCEPT !.reason = "skipped", !.signal = "None",
                                           !.position = current_position,
                                           !.final_decision = "None", !.order = "None"]
                 /\ UNCHANGED current_position
            ELSE IF exit # "None" /\ closed
            THEN /\ cycle' = [cycle EXCEPT !.reason = exit, !.signal = "None",
                                           !.position = current_position,
                                           !.final_decision = "None", !.order = "SELL"]
                 /\ current_position' = "None"
            ELSE /\ cycle' = [cycle EXCEPT !.reason = "decision", !.signal = signal,
                                           !.position = current_position,
                                           !.final_decision = decision, !.order = order]
                 /\ current_position' = CASE order = "BUY" -> "LONG"
                                          [] order = "SELL" -> "None"
                                          [] OTHER -> current_position
    /\ UNCHANGED <<breaker, workflow_result, tool_result, bot, learning>>

\* if confidence < 0.3 (src/rl_trading_bot.py)
insufficient_confidence(confidence) == confidence < min_confidence

\* a variant that cuts the loss only when the signal and the RL action are
\* both HOLD
make_trading_decision_following_rl(signal, signal_strength, rl_action, confidence, position, position_pnl) ==
    IF insufficient_confidence(confidence) THEN "HOLD"
    ELSE IF position # "None"
    THEN IF position_pnl > 0
         THEN IF signal = "HOLD" \/ rl_action = "HOLD" THEN "HOLD" ELSE rl_action
         ELSE IF signal = "HOLD" /\ rl_action = "HOLD"
              THEN (IF position = "LONG" THEN "SELL" ELSE "BUY")
              ELSE rl_action
    ELSE IF signal_strength >= min_signal_threshold /\ confidence > high_confidence
         THEN rl_action
         ELSE "HOLD"

\* make_trading_decision: final_decision
make_trading_decision(signal, signal_strength, rl_action, confidence, position, position_pnl) ==
    IF insufficient_confidence(confidence) THEN "HOLD"
    ELSE IF position # "None"
    THEN IF position_pnl > 0
         THEN IF signal = "HOLD" \/ rl_action = "HOLD" THEN "HOLD" ELSE rl_action
         ELSE IF signal = "HOLD" \/ rl_action = "HOLD"
              THEN (IF position = "LONG" THEN "SELL" ELSE "BUY")
              ELSE rl_action
    ELSE IF signal_strength >= min_signal_threshold /\ confidence > high_confidence
         THEN rl_action
         ELSE "HOLD"

\* the exchange nets a market order of the position's size against it
exchange(position, order) ==
    CASE order = "BUY" -> (IF position = "SHORT" THEN "None" ELSE "LONG")
      [] order = "SELL" -> (IF position = "LONG" THEN "None" ELSE "SHORT")
      [] OTHER -> position

\* one iteration of src/rl_trading_bot.py on the market data held in cycle.
\* current_position is what get_current_position() reads from the
\* exchange; filled: execute_trade places the order (trading enabled, a
\* client, no exchange error)
run_iteration ==
    /\ bot = "rl_trading_bot"
    /\ \E ready, filled \in BOOLEAN :
        LET position_pnl == IF current_position = "None" THEN 0 ELSE cycle.pnl
            signal == signal_type(cycle.signal_strength)
            final_decision == make_trading_decision(signal, cycle.signal_strength,
                                                    cycle.rl_action, cycle.confidence,
                                                    current_position, position_pnl)
            order == IF final_decision \in {"BUY", "SELL"} /\ filled
                     THEN final_decision ELSE "None"
        IN  IF ~ready
            THEN /\ cycle' = [cycle EXCEPT !.reason = "skipped", !.signal = "None",
                                           !.position = current_position,
                                           !.final_decision = "None", !.order = "None"]
                 /\ UNCHANGED current_position
            ELSE /\ cycle' = [cycle EXCEPT !.reason = "decision", !.signal = signal,
                                           !.position = current_position,
                                           !.final_decision = final_decision,
                                           !.order = order]
                 /\ current_position' = exchange(current_position, order)
    /\ UNCHANGED <<breaker, workflow_result, tool_result, bot, learning>>

(***************************************************************************)
(* SpecBot: one of the bots trades while the market guardian drives the    *)
(* breaker.                                                                *)
(***************************************************************************)
\* the market data of the behaviour: signal strength, RL recommendation and
\* confidence, PnL of the open position
MarketData ==
    { [NoCycle EXCEPT !.signal_strength = s, !.rl_action = a, !.confidence = c, !.pnl = p] :
        s \in StrengthValues, a \in ACTION_NAMES, c \in ConfidenceValues, p \in PnlValues }

\* the bot at the start of a cycle of its run: flat or with the position
\* earlier cycles (or, for src/rl_trading_bot.py, the exchange) left
InitBot ==
    /\ InitBreaker
    /\ InitInstance
    /\ bot \in BotPrograms
    /\ current_position \in (IF bot = "trading_bot" THEN {"None", "LONG"}
                                                     ELSE {"None", "LONG", "SHORT"})
    /\ cycle \in MarketData
    /\ InitNoAgent

\* the guardian's tools, one input each
BotGuardianCalls(t) ==
    \/ /\ _state[Self(t)].total_triggers < MaxTriggers
       /\ Call(t, "trigger", CHOOSE a \in TriggerInputs : a.market_snapshot = "None")
       /\ UNCHANGED callers
    \/ \E a \in WarningInputs : Call(t, "set_warning", a) /\ UNCHANGED callers
    \/ Call(t, "start_recovery", NoArg) /\ UNCHANGED callers
    \/ Call(t, "clear", NoArg) /\ UNCHANGED callers

NextBot ==
    \/ BotGuardianCalls("guardian")
    \/ Transitions("guardian")
    \/ Nested("guardian")
    \/ run_trading_cycle
    \/ run_iteration

SpecBot == InitBot /\ [][NextBot]_vars
(***************************************************************************)
(* The signal scorers: SignalGenerator.generate_signal of                  *)
(* src/src/indicators.py and generate_signal_from_indicators of            *)
(* src/technical_indicators.py.  Prices and averages are levels 1..3, the  *)
(* MACD histogram is macd - macd_signal as the indicator calculators       *)
(* compute it.                                                             *)
(***************************************************************************)
Levels == {1, 2, 3}
RsiValues == {29, 30, 50, 70, 71}

IndicatorSnapshots ==
    { [price |-> p, rsi |-> r, macd |-> m, macd_signal |-> 0, macd_histogram |-> m,
       vwap |-> 2, ema9 |-> e9, ema21 |-> e21, sma50 |-> 2,
       bb_lower |-> lo, bb_upper |-> up] :
        p \in Levels, r \in RsiValues, m \in {-1, 0, 1}, e9 \in Levels, e21 \in Levels,
        lo \in {1, 2}, up \in {2, 3} }

\* SignalGenerator.generate_signal, with self.min_threshold as the bot sets it
generate_signal(indicators) ==
    LET i == indicators
        macd_signals == IF i.macd > i.macd_signal /\ i.macd_histogram > 0 THEN 1
                        ELSE IF i.macd < i.macd_signal /\ i.macd_histogram < 0 THEN -1
                        ELSE 0
        vwap_signals == IF i.price > i.vwap THEN 1 ELSE -1
        short_term == IF i.ema9 > i.ema21 THEN 1 ELSE -1
        medium_term == IF i.ema9 > i.sma50 THEN 2 ELSE -2
        long_term == IF i.ema21 > i.sma50 THEN 3 ELSE -3
        rsi_signals == IF i.rsi < 30 THEN 1 ELSE IF i.rsi > 70 THEN -1 ELSE 0
        bollinger == IF i.price < i.bb_lower THEN 1
                     ELSE IF i.price > i.bb_upper THEN -1
                     ELSE 0
        signal_strength == macd_signals + vwap_signals + short_term + medium_term
                           + long_term + rsi_signals + bollinger
    IN  <<signal_type(signal_strength), signal_strength>>

\* generate_signal_from_indicators (current_price, ema_9, ema_21 and sma_50
\* are the keys price, ema9, ema21 and sma50 of the snapshot)
generate_signal_from_indicators(indicators, min_threshold) ==
    LET i == indicators
        rsi_signals == IF i.rsi < 30 THEN 1 ELSE IF i.rsi > 70 THEN -1 ELSE 0
        macd_signals == IF i.macd > i.macd_signal /\ i.macd_histogram > 0 THEN 1
                        ELSE IF i.macd < i.macd_signal /\ i.macd_histogram < 0 THEN -1
                        ELSE 0
        vwap_signals == IF i.price > i.vwap THEN 1 ELSE -1
        ema_crossover == IF i.ema9 > i.ema21 THEN 2 ELSE -2
        price_vs_sma == IF i.price > i.sma50 THEN 1 ELSE -1
        bollinger == IF i.price <= i.bb_lower THEN 1
                     ELSE IF i.price >= i.bb_upper THEN -1
                     ELSE 0
        signal_strength == rsi_signals + macd_signals + vwap_signals + ema_crossover
                           + price_vs_sma + bollinger
        signal == IF signal_strength >= min_threshold THEN "BUY"
                  ELSE IF signal_strength <= -min_threshold THEN "SELL"
                  ELSE "HOLD"
    IN  <<signal, signal_strength>>

\* step 5 of run_trading_cycle: self.generate_signal(indicators)
score_generate_signal ==
    /\ call.method = "None"
    /\ call.args[1] \in IndicatorSnapshots
    /\ call' = [call EXCEPT !.method = "generate_signal",
                            !.result = generate_signal(call.args[1])]
    /\ UNCHANGED <<breaker, workflow_result, tool_result, trading, agent, q_table, epsilon,
                   experience_buffer, win_streak, loss_streak, stored,
                   total_states_learned, total_episodes, model_file>>

\* run_iteration: generate_signal_from_indicators(indicators,
\* self.min_signal_threshold)
score_generate_signal_from_indicators ==
    /\ call.method = "None"
    /\ call.args[1] \in IndicatorSnapshots
    /\ call' = [call EXCEPT !.method = "generate_signal_from_indicators",
                            !.result = generate_signal_from_indicators(call.args[1],
                                                                       min_signal_threshold)]
    /\ UNCHANGED <<breaker, workflow_result, tool_result, trading, agent, q_table, epsilon,
                   experience_buffer, win_streak, loss_streak, stored,
                   total_states_learned, total_episodes, model_file>>

\* the process of a bot between two cycles: breaker idle, no call under way
InitIdle ==
    /\ InitBreaker
    /\ InitInstance
    /\ InitNoBot

InitScore ==
    /\ InitIdle
    /\ agent = "None"
    /\ q_table = <<>>
    /\ epsilon = 0
    /\ experience_buffer = <<>>
    /\ win_streak = 0
    /\ loss_streak = 0
    /\ stored = <<>>
    /\ total_states_learned = 0
    /\ total_episodes = 0
    /\ model_file = MissingFile
    /\ \E indicators \in IndicatorSnapshots : call = [NoCall EXCEPT !.args = <<indicators>>]

NextScore ==
    \/ score_generate_signal
    \/ score_generate_signal_from_indicators

SpecScore == InitScore /\ [][NextScore]_vars
(***************************************************************************)
(* QLearningAgent._discretize and the threshold lists of get_state_key     *)
(* (src/src/rl_model.py).  The MACD-histogram and PnL lists are in         *)
(* hundredths.                                                             *)
(***************************************************************************)
StateKeyBins ==
    { <<-10, -3, -1, 1, 3, 10>>,      \* signal_strength
      <<30, 40, 50, 60, 70>>,         \* rsi
      <<-10, -1, 0, 1, 10>>,          \* macd_histogram: -0.1, -0.01, 0, 0.01, 0.1
      <<25, 45, 55, 75>>,             \* fear_greed_index
      <<-5, -2, 0, 2, 5>> }           \* position_pnl: -0.05, -0.02, 0, 0.02, 0.05

\* every value around the thresholds, and two far outside them
DiscretizeValues == (-11..76) \cup {-1000, 1000}

\* a variant whose comparison is value <= threshold
RECURSIVE _discretize_inclusive_from(_, _, _)
_discretize_inclusive_from(value, bins, i) ==
    IF i > Len(bins) THEN Len(bins)
    ELSE IF value <= bins[i] THEN i - 1
    ELSE _discretize_inclusive_from(value, bins, i + 1)

_discretize_inclusive(value, bins) == _discretize_inclusive_from(value, bins, 1)

\* the loop `for i, threshold in enumerate(bins)` from the i-th threshold on
\* (bins[i] here is the threshold enumerate numbers i - 1)
RECURSIVE _discretize_from(_, _, _)
_discretize_from(value, bins, i) ==
    IF i > Len(bins) THEN Len(bins)
    ELSE IF value < bins[i] THEN i - 1
    ELSE _discretize_from(value, bins, i + 1)

_discretize(value, bins) == _discretize_from(value, bins, 1)

\* one self._discretize(...) call of get_state_key
get_state_key_discretize ==
    /\ call.method = "None"
    /\ call.args[2] \in StateKeyBins
    /\ call' = [call EXCEPT !.method = "_discretize",
                            !.result = <<_discretize(call.args[1], call.args[2])>>]
    /\ UNCHANGED <<breaker, workflow_result, tool_result, trading, agent, q_table, epsilon,
                   experience_buffer, win_streak, loss_streak, stored,
                   total_states_learned, total_episodes, model_file>>

InitDiscretize ==
    /\ InitIdle
    /\ agent = "QLearningAgent"
    /\ q_table = <<>>
    /\ epsilon = 0
    /\ experience_buffer = <<>>
    /\ win_streak = 0
    /\ loss_streak = 0
    /\ stored = <<>>
    /\ total_states_learned = 0
    /\ total_episodes = 0
    /\ model_file = MissingFile
    /\ \E value \in DiscretizeValues, bins \in StateKeyBins :
        call = [NoCall EXCEPT !.args = <<value, bins>>]

NextDiscretize == get_state_key_discretize

SpecDiscretize == InitDiscretize /\ [][NextDiscretize]_vars
(***************************************************************************)
(* The learning agents: QLearningAgent of src/src/rl_model.py and          *)
(* QLearningTrader of src/q_learning_model.py.  Action-values and rewards  *)
(* are in hundredths, confidences in thousandths, epsilon in              *)
(* hundred-thousandths; a product with a float parameter is rounded to the *)
(* nearest unit, as every float operation rounds to the nearest            *)
(* representable number.                                                   *)
(***************************************************************************)
MaxCalls == 3

Agents == {"QLearningAgent", "QLearningTrader"}
StateKeys == {"s1", "s2"}
Actions == 0..2
RewardValues == {-1000, 1000}

\* the defaults of both constructors, as fractions: 0.1 and 0.95
learning_rate == <<1, 10>>
discount_factor == <<19, 20>>

\* x * f for a fraction f, rounded to the nearest unit
times(x, f) == (2 * x * f[1] + f[2]) \div (2 * f[2])

max(q_values) == CHOOSE q \in {q_values[i] : i \in 1..3} : \A i \in 1..3 : q >= q_values[i]
min(q_values) == CHOOSE q \in {q_values[i] : i \in 1..3} : \A i \in 1..3 : q <= q_values[i]

\* np.argmax(q_values), max(q_values, key=q_values.get): the first index
\* that holds the maximum
argmax(q_values) == CHOOSE a \in Actions :
    /\ q_values[a + 1] = max(q_values)
    /\ \A b \in Actions : b < a => q_values[b + 1] # max(q_values)

\* np.zeros(3), {0: 0.0, 1: 0.0, 2: 0.0}
zeros == <<0, 0, 0>>

\* the q_table once get_q_values(state_key) has run: an unseen state gets
\* its entry of zeros
initialized(table, state_key) ==
    IF state_key \in DOMAIN table THEN table
    ELSE [s \in DOMAIN table \cup {state_key} |->
            IF s = state_key THEN zeros ELSE table[s]]

\* a variant that counts a call that inserted, not the keys it inserted
inserted_once(before, after) == IF DOMAIN after = DOMAIN before THEN 0 ELSE 1

\* the keys get_q_values inserted between two tables: it adds 1 to
\* self.total_states_learned with each
inserted(before, after) == Cardinality(DOMAIN after \ DOMAIN before)

\* a variant that bootstraps on done as well
next_max_q_ignoring_done(table, next_state_key, done) ==
    max(initialized(table, next_state_key)[next_state_key])

\* np.max(self.get_q_values(next_state_key)) if not done else 0
next_max_q(table, next_state_key, done) ==
    IF done THEN 0 ELSE max(initialized(table, next_state_key)[next_state_key])

\* a variant that adds alpha * target without taking current_q off
new_q_accumulating(current_q, reward, bootstrap) ==
    current_q + times(reward + times(bootstrap, discount_factor), learning_rate)

\* new_q = current_q + self.learning_rate * (target - current_q)
new_q(current_q, reward, bootstrap) ==
    LET target == reward + times(bootstrap, discount_factor)
    IN  current_q + times(target - current_q, learning_rate)

\* the q_table after QLearningAgent.update_q_value(state, action, reward,
\* next_state, done); get_q_values(next_state_key) runs only if not done
agent_update(table, state, action, reward, next_state, done) ==
    LET t1 == initialized(table, state)
        t2 == IF done THEN t1 ELSE initialized(t1, next_state)
        q == new_q(t1[state][action + 1], reward, next_max_q(t1, next_state, done))
    IN  [t2 EXCEPT ![state][action + 1] = q]

\* the q_table after QLearningTrader.update_q_value(state, action, reward,
\* next_state)
trader_update(table, state, action, reward, next_state) ==
    LET t2 == initialized(initialized(table, state), next_state)
        q == new_q(t2[state][action + 1], reward, max(t2[next_state]))
    IN  [t2 EXCEPT ![state][action + 1] = q]

\* QLearningAgent.update_q_value
update_q_value ==
    /\ agent = "QLearningAgent"
    /\ call.n < MaxCalls
    /\ \E state \in StateKeys, action \in Actions, reward \in RewardValues,
          next_state \in StateKeys, done \in BOOLEAN :
        /\ q_table' = agent_update(q_table, state, action, reward, next_state, done)
        /\ call' = [method |-> "update_q_value",
                    args |-> <<state, action, reward, next_state, done>>,
                    result |-> <<>>, n |-> call.n + 1]
    /\ total_states_learned' = total_states_learned + inserted(q_table, q_table')
    /\ UNCHANGED <<breaker, workflow_result, tool_result, trading, agent, epsilon,
                   experience_buffer, win_streak, loss_streak, stored,
                   total_episodes, model_file>>

\* QLearningTrader.update_q_value
trader_update_q_value ==
    /\ agent = "QLearningTrader"
    /\ call.n < MaxCalls
    /\ \E state \in StateKeys, action \in Actions, reward \in RewardValues,
          next_state \in StateKeys :
        /\ q_table' = trader_update(q_table, state, action, reward, next_state)
        /\ call' = [method |-> "update_q_value",
                    args |-> <<state, action, reward, next_state>>,
                    result |-> <<>>, n |-> call.n + 1]
    /\ UNCHANGED <<breaker, workflow_result, tool_result, trading, agent, epsilon,
                   experience_buffer, win_streak, loss_streak, stored,
                   total_states_learned, total_episodes, model_file>>

\* QLearningAgent.get_action_confidence: (action, confidence)
get_action_confidence ==
    /\ agent = "QLearningAgent"
    /\ call.n < MaxCalls
    /\ \E state \in StateKeys :
        LET table == initialized(q_table, state)
            q_values == table[state]
            max_q == q_values[argmax(q_values) + 1]
            min_q == min(q_values)
            \* (max_q - min_q) / 10.0: hundredths of a value to thousandths
            spread == max_q - min_q
            confidence == IF max_q = min_q THEN 0
                          ELSE IF spread > 1000 THEN 1000 ELSE spread
        IN  /\ q_table' = table
            /\ call' = [method |-> "get_action_confidence", args |-> <<state, FALSE>>,
                        result |-> <<argmax(q_values), confidence>>, n |-> call.n + 1]
    /\ total_states_learned' = total_states_learned + inserted(q_table, q_table')
    /\ UNCHANGED <<breaker, workflow_result, tool_result, trading, agent, epsilon,
                   experience_buffer, win_streak, loss_streak, stored,
                   total_episodes, model_file>>

\* QLearningTrader.choose_action: (action, confidence).  random: whether
\* `explore and np.random.random() < self.epsilon` holds; the second
\* argument recorded is that outcome
choose_action ==
    /\ agent = "QLearningTrader"
    /\ call.n < MaxCalls
    /\ \E state \in StateKeys, random \in BOOLEAN :
        IF random /\ epsilon > 0
        THEN /\ \E action \in Actions :
                call' = [method |-> "choose_action", args |-> <<state, TRUE>>,
                         result |-> <<action, 0>>, n |-> call.n + 1]
             /\ UNCHANGED q_table
        ELSE LET table == initialized(q_table, state)
                 q_values == table[state]
                 max_q == max(q_values)
                 min_q == min(q_values)
                 confidence == IF max_q # min_q THEN (max_q - min_q) * 10 ELSE 500
             IN  /\ q_table' = table
                 /\ call' = [method |-> "choose_action", args |-> <<state, FALSE>>,
                             result |-> <<argmax(q_values), confidence>>,
                             n |-> call.n + 1]
    /\ UNCHANGED <<breaker, workflow_result, tool_result, trading, agent, epsilon,
                   experience_buffer, win_streak, loss_streak, stored,
                   total_states_learned, total_episodes, model_file>>

\* a fresh agent of either class: epsilon=0.1, empty table and buffer
InitAgent ==
    /\ InitIdle
    /\ agent \in Agents
    /\ q_table = <<>>
    /\ epsilon = 10000
    /\ experience_buffer = <<>>
    /\ win_streak = 0
    /\ loss_streak = 0
    /\ stored = <<>>
    /\ total_states_learned = 0
    /\ total_episodes = 0
    /\ model_file = MissingFile
    /\ call = NoCall

NextLearn ==
    \/ update_q_value
    \/ trader_update_q_value
    \/ get_action_confidence
    \/ choose_action

SpecLearn == InitAgent /\ [][NextLearn]_vars
(***************************************************************************)
(* SpecConverge: a fresh agent trained by update_q_value with the same     *)
(* positive reward on one (state, action) pair whose next state is that    *)
(* state.  The pair and the reward are held in call.args from the start.   *)
(***************************************************************************)
MaxUpdates == 1200

\* agent.update_q_value(state, action, reward, state, done=False) once more
repeat_update_q_value ==
    /\ agent = "QLearningAgent"
    /\ call.n < MaxUpdates
    /\ q_table' = agent_update(q_table, call.args[1], call.args[2], call.args[3],
                               call.args[1], FALSE)
    /\ call' = [call EXCEPT !.method = "update_q_value", !.n = call.n + 1]
    /\ total_states_learned' = total_states_learned + inserted(q_table, q_table')
    /\ UNCHANGED <<breaker, workflow_result, tool_result, trading, agent, epsilon,
                   experience_buffer, win_streak, loss_streak, stored,
                   total_episodes, model_file>>

\* model.update_q_value(state, action, reward, state) once more
repeat_trader_update_q_value ==
    /\ agent = "QLearningTrader"
    /\ call.n < MaxUpdates
    /\ q_table' = trader_update(q_table, call.args[1], call.args[2], call.args[3],
                                call.args[1])
    /\ call' = [call EXCEPT !.method = "update_q_value", !.n = call.n + 1]
    /\ UNCHANGED <<breaker, workflow_result, tool_result, trading, agent, epsilon,
                   experience_buffer, win_streak, loss_streak, stored,
                   total_states_learned, total_episodes, model_file>>

InitConverge ==
    /\ InitIdle
    /\ agent \in Agents
    /\ q_table = <<>>
    /\ epsilon = 10000
    /\ experience_buffer = <<>>
    /\ win_streak = 0
    /\ loss_streak = 0
    /\ stored = <<>>
    /\ total_states_learned = 0
    /\ total_episodes = 0
    /\ model_file = MissingFile
    /\ \E state \in StateKeys, action \in Actions, reward \in RewardValues :
        /\ reward > 0
        /\ call = [NoCall EXCEPT !.args = <<state, action, reward, state, FALSE>>]

NextConverge ==
    \/ repeat_update_q_value
    \/ repeat_trader_update_q_value

SpecConverge == InitConverge /\ [][NextConverge]_vars
(***************************************************************************)
(* SpecReplay: the replay buffer and the replay of either agent.  The      *)
(* buffer capacity and the batch size are constructor and call arguments   *)
(* (defaults 10000 and 32); the model takes small ones.                    *)
(***************************************************************************)
buffer_size == 3
batch_size == 2
MaxReplayCalls == 5

\* epsilon_min = 0.01 and epsilon_decay = 0.995 of both constructors
epsilon_min == 1000
epsilon_decay == <<199, 200>>

\* (state, action, reward, next_state, done)
Experiences ==
    { <<"s1", 0, 1000, "s2", FALSE>>,
      <<"s1", 0, 1000, "s1", FALSE>>,
      <<"s2", 1, -1000, "s2", TRUE>> }

\* a variant that keeps the oldest items of a full buffer
append_keeping_oldest(buffer, experience) ==
    IF Len(buffer) >= buffer_size THEN buffer ELSE Append(buffer, experience)

\* deque(maxlen=buffer_size).append(experience)
append(buffer, experience) ==
    IF buffer_size = 0 THEN <<>>
    ELSE IF Len(buffer) >= buffer_size THEN Append(Tail(buffer), experience)
    ELSE Append(buffer, experience)

\* QLearningAgent.store_experience
store_experience ==
    /\ agent = "QLearningAgent"
    /\ call.n < MaxReplayCalls
    /\ \E experience \in Experiences :
        /\ experience_buffer' = append(experience_buffer, experience)
        /\ stored' = Append(stored, experience)
        /\ call' = [method |-> "store_experience", args |-> experience,
                    result |-> <<>>, n |-> call.n + 1]
    /\ UNCHANGED <<breaker, workflow_result, tool_result, trading, agent, q_table, epsilon,
                   win_streak, loss_streak,
                   total_states_learned, total_episodes, model_file>>

\* QLearningTrader.add_experience: (state, action, reward, next_state)
add_experience ==
    /\ agent = "QLearningTrader"
    /\ call.n < MaxReplayCalls
    /\ \E experience \in Experiences :
        /\ experience_buffer' = append(experience_buffer, SubSeq(experience, 1, 4))
        /\ stored' = Append(stored, SubSeq(experience, 1, 4))
        /\ call' = [method |-> "add_experience", args |-> SubSeq(experience, 1, 4),
                    result |-> <<>>, n |-> call.n + 1]
    /\ UNCHANGED <<breaker, workflow_result, tool_result, trading, agent, q_table, epsilon,
                   win_streak, loss_streak,
                   total_states_learned, total_episodes, model_file>>

\* random.sample / np.random.choice(..., replace=False): size distinct
\* positions out of n, in the order drawn
Samples(n, size) ==
    { indices \in [1..size -> 1..n] :
        \A i, j \in 1..size : i # j => indices[i] # indices[j] }

\* for ... in batch: self.update_q_value(...), from the i-th item on
RECURSIVE replay_batch(_, _, _, _)
replay_batch(class, table, batch, i) ==
    IF i > Len(batch) THEN table
    ELSE LET e == batch[i]
             updated == IF class = "QLearningAgent"
                        THEN agent_update(table, e[1], e[2], e[3], e[4], e[5])
                        ELSE trader_update(table, e[1], e[2], e[3], e[4])
         IN  replay_batch(class, updated, batch, i + 1)

\* QLearningAgent.replay_experiences(batch_size)
replay_experiences ==
    /\ agent = "QLearningAgent"
    /\ call.n < MaxReplayCalls
    /\ IF Len(experience_buffer) < batch_size
       THEN /\ q_table' = q_table
            /\ call' = [method |-> "replay_experiences", args |-> <<batch_size>>,
                        result |-> <<>>, n |-> call.n + 1]
       ELSE \E indices \in Samples(Len(experience_buffer), batch_size) :
            LET batch == [i \in 1..batch_size |-> experience_buffer[indices[i]]]
            IN  /\ q_table' = replay_batch(agent, q_table, batch, 1)
                /\ call' = [method |-> "replay_experiences", args |-> <<batch_size>>,
                            result |-> indices, n |-> call.n + 1]
    /\ total_states_learned' = total_states_learned + inserted(q_table, q_table')
    /\ UNCHANGED <<breaker, workflow_result, tool_result, trading, agent, epsilon,
                   experience_buffer, win_streak, loss_streak, stored,
                   total_episodes, model_file>>

\* QLearningTrader.replay_experience(batch_size)
replay_experience ==
    /\ agent = "QLearningTrader"
    /\ call.n < MaxReplayCalls
    /\ IF Len(experience_buffer) < batch_size
       THEN /\ q_table' = q_table
            /\ epsilon' = epsilon
            /\ call' = [method |-> "replay_experience", args |-> <<batch_size>>,
                        result |-> <<>>, n |-> call.n + 1]
       ELSE \E indices \in Samples(Len(experience_buffer), batch_size) :
            LET batch == [i \in 1..batch_size |-> experience_buffer[indices[i]]]
            IN  /\ q_table' = replay_batch(agent, q_table, batch, 1)
                /\ epsilon' = IF epsilon > epsilon_min
                              THEN times(epsilon, epsilon_decay)
                              ELSE epsilon
                /\ call' = [method |-> "replay_experience", args |-> <<batch_size>>,
                            result |-> indices, n |-> call.n + 1]
    /\ UNCHANGED <<breaker, workflow_result, tool_result, trading, agent,
                   experience_buffer, win_streak, loss_streak, stored,
                   total_states_learned, total_episodes, model_file>>

\* QLearningAgent.decay_epsilon
decay_epsilon ==
    /\ agent = "QLearningAgent"
    /\ call.n < MaxReplayCalls
    /\ epsilon' = IF times(epsilon, epsilon_decay) > epsilon_min
                  THEN times(epsilon, epsilon_decay)
                  ELSE epsilon_min
    /\ call' = [method |-> "decay_epsilon", args |-> <<>>, result |-> <<>>,
                n |-> call.n + 1]
    /\ UNCHANGED <<breaker, workflow_result, tool_result, trading, agent, q_table,
                   experience_buffer, win_streak, loss_streak, stored,
                   total_states_learned, total_episodes, model_file>>

\* an agent of either class with its epsilon at the default 0.1, or at
\* 0.01002, where 459 decays of 0.1 arrive
InitReplay ==
    /\ InitIdle
    /\ agent \in Agents
    /\ q_table = <<>>
    /\ epsilon \in {10000, 1002}
    /\ experience_buffer = <<>>
    /\ win_streak = 0
    /\ loss_streak = 0
    /\ stored = <<>>
    /\ total_states_learned = 0
    /\ total_episodes = 0
    /\ model_file = MissingFile
    /\ call = NoCall

NextReplay ==
    \/ store_experience
    \/ add_experience
    \/ replay_experiences
    \/ replay_experience
    \/ decay_epsilon

SpecReplay == InitReplay /\ [][NextReplay]_vars
(***************************************************************************)
(* The reward functions: QLearningAgent.calculate_reward and               *)
(* QLearningTrader.calculate_reward.  PnL is in basis points (0.02 is      *)
(* 200), rewards in hundredths.                                            *)
(***************************************************************************)
RewardPnlValues == {-300, -201, -200, -199, -1, 0, 1, 199, 200, 201, 300}
StreakValues == 0..3
MarketTrends == {"None", "bullish", "bearish"}

\* QLearningAgent.calculate_reward(action, pnl, signal_strength,
\* position_status, streak_bonus); actions 0 and 1 are BUY and SELL
agent_calculate_reward(action, pnl, signal_strength, streak_bonus) ==
    IF action \in {0, 1}
    THEN (IF pnl > 200 THEN 2000
          ELSE IF pnl > 0 THEN 1000
          ELSE IF pnl > -200 THEN -1000
          ELSE -2000) + streak_bonus
    ELSE IF signal_strength = 0 THEN 500 ELSE -200

\* QLearningTrader.calculate_reward(pnl, streak_bonus, market_context) on an
\* object with the given streak counters: the reward and the counters it
\* leaves.  market_trend is market_context.get('market_trend'), "None"
\* without a market context
trader_calculate_reward(pnl, wins, losses, market_trend) ==
    LET base == IF pnl > 0 THEN (IF pnl > 200 THEN 2000 ELSE 1000)
                ELSE IF pnl < 0 THEN (IF pnl < -200 THEN -2000 ELSE -1000)
                ELSE 0
        w == IF pnl > 0 THEN wins + 1 ELSE IF pnl < 0 THEN 0 ELSE wins
        l == IF pnl > 0 THEN 0 ELSE IF pnl < 0 THEN losses + 1 ELSE losses
        streak == IF w >= 3 THEN 500 ELSE IF l >= 3 THEN -500 ELSE 0
        context == IF market_trend = "bullish" /\ pnl > 0 THEN 200
                   ELSE IF market_trend = "bearish" /\ pnl < 0 THEN -200
                   ELSE 0
    IN  [reward |-> base + streak + context, win_streak |-> w, loss_streak |-> l]

\* agent.calculate_reward(action, pnl, signal_strength, position_status,
\* streak_bonus) with the arguments held in call.args
calculate_reward ==
    /\ agent = "QLearningAgent"
    /\ call.method = "None"
    /\ call' = [call EXCEPT !.method = "calculate_reward",
                            !.result = <<agent_calculate_reward(call.args[2], call.args[1],
                                                                call.args[3], call.args[4])>>,
                            !.n = 1]
    /\ UNCHANGED <<breaker, workflow_result, tool_result, trading, agent, q_table, epsilon,
                   experience_buffer, win_streak, loss_streak, stored,
                   total_states_learned, total_episodes, model_file>>

\* model.calculate_reward(pnl, market_context=...) with the arguments held
\* in call.args
trader_reward ==
    /\ agent = "QLearningTrader"
    /\ call.method = "None"
    /\ LET r == trader_calculate_reward(call.args[1], win_streak, loss_streak, call.args[4])
       IN  /\ win_streak' = r.win_streak
           /\ loss_streak' = r.loss_streak
           /\ call' = [call EXCEPT !.method = "calculate_reward",
                                   !.result = <<r.reward>>, !.n = 1]
    /\ UNCHANGED <<breaker, workflow_result, tool_result, trading, agent, q_table, epsilon,
                   experience_buffer, stored,
                   total_states_learned, total_episodes, model_file>>

\* call.args: for QLearningAgent <<pnl, action, signal_strength,
\* streak_bonus>>, for QLearningTrader <<pnl, win_streak, loss_streak,
\* market_trend>> (the counters as the call finds them)
InitReward ==
    /\ InitIdle
    /\ agent \in Agents
    /\ q_table = <<>>
    /\ epsilon = 10000
    /\ experience_buffer = <<>>
    /\ stored = <<>>
    /\ total_states_learned = 0
    /\ total_episodes = 0
    /\ model_file = MissingFile
    /\ win_streak \in (IF agent = "QLearningTrader" THEN StreakValues ELSE {0})
    /\ loss_streak \in (IF agent = "QLearningTrader" /\ win_streak = 0
                        THEN StreakValues ELSE {0})
    /\ \E pnl \in RewardPnlValues :
        IF agent = "QLearningAgent"
        THEN \E action \in Actions, signal_strength \in {0, 3}, streak_bonus \in {-500, 0, 500} :
                call = [NoCall EXCEPT !.args = <<pnl, action, signal_strength, streak_bonus>>]
        ELSE \E market_trend \in MarketTrends :
                call = [NoCall EXCEPT !.args = <<pnl, win_streak, loss_streak, market_trend>>]

NextReward ==
    \/ calculate_reward
    \/ trader_reward

SpecReward == InitReward /\ [][NextReward]_vars
(***************************************************************************)
(* SpecStreak: QLearningTrader.calculate_reward called again and again on  *)
(* one object, each call on the streak counters the calls before it left.  *)
(* stored keeps the (pnl, market_trend) of every call made, oldest first.  *)
(***************************************************************************)
MaxRewardCalls == 4

StreakPnlValues == {-100, 0, 100}

\* model.calculate_reward(pnl, market_context=...) once more
next_calculate_reward ==
    /\ agent = "QLearningTrader"
    /\ call.n < MaxRewardCalls
    /\ \E pnl \in StreakPnlValues, market_trend \in MarketTrends :
        LET r == trader_calculate_reward(pnl, win_streak, loss_streak, market_trend)
        IN  /\ win_streak' = r.win_streak
            /\ loss_streak' = r.loss_streak
            /\ stored' = Append(stored, <<pnl, market_trend>>)
            /\ call' = [method |-> "calculate_reward",
                        args |-> <<pnl, win_streak, loss_streak, market_trend>>,
                        result |-> <<r.reward>>, n |-> call.n + 1]
    /\ UNCHANGED <<breaker, workflow_result, tool_result, trading, agent, q_table, epsilon,
                   experience_buffer, total_states_learned, total_episodes, model_file>>

\* a fresh QLearningTrader
InitStreak ==
    /\ InitIdle
    /\ agent = "QLearningTrader"
    /\ q_table = <<>>
    /\ epsilon = 10000
    /\ experience_buffer = <<>>
    /\ win_streak = 0
    /\ loss_streak = 0
    /\ stored = <<>>
    /\ total_states_learned = 0
    /\ total_episodes = 0
    /\ model_file = MissingFile
    /\ call = NoCall

NextStreak == next_calculate_reward

SpecStreak == InitStreak /\ [][NextStreak]_vars
(***************************************************************************)
(* SpecPersist: save_model and load_model of either class next to the      *)
(* updates, and the construction of a new object in a process that finds   *)
(* the file of an earlier one.  pickle writes and reads back a dict as it  *)
(* is; what the methods decide is which attributes go into the dict and    *)
(* which are taken out of it.  Not modelled: the learning_rate,            *)
(* discount_factor and timestamp entries (written, never read back) and    *)
(* total_rewards.                                                          *)
(***************************************************************************)
MaxPersistCalls == 5

\* the attributes of the object
attributes ==
    [ q_table |-> q_table, epsilon |-> epsilon, total_episodes |-> total_episodes,
      total_states_learned |-> total_states_learned,
      win_streak |-> win_streak, loss_streak |-> loss_streak ]

\* the attributes __init__ sets (epsilon: the default 0.1)
new_attributes ==
    [ q_table |-> <<>>, epsilon |-> 10000, total_episodes |-> 0,
      total_states_learned |-> 0, win_streak |-> 0, loss_streak |-> 0 ]

\* model_data of QLearningAgent.save_model
agent_model_data(self) ==
    [ q_table |-> self.q_table, epsilon |-> self.epsilon,
      total_episodes |-> self.total_episodes,
      total_states_learned |-> self.total_states_learned ]

\* model_data of QLearningTrader.save_model
trader_model_data(self) ==
    [ q_table |-> self.q_table, epsilon |-> self.epsilon,
      total_episodes |-> self.total_episodes,
      win_streak |-> self.win_streak, loss_streak |-> self.loss_streak ]

\* model_data.get(key, default)
get(model_data, key, default) ==
    IF key \in DOMAIN model_data THEN model_data[key] ELSE default

\* a variant that takes the table and the counters out of the file and
\* leaves epsilon as the object has it
agent_load_model_keeping_epsilon(self, file) ==
    IF ~file.exists \/ Len(file.pickle) = 0 THEN [val |-> FALSE, self |-> self]
    ELSE LET model_data == file.pickle[1]
         IN  [val |-> TRUE,
              self |-> [self EXCEPT
                 !.q_table = model_data.q_table,
                 !.total_episodes = get(model_data, "total_episodes", 0),
                 !.total_states_learned = get(model_data, "total_states_learned", 0)]]

\* QLearningAgent.load_model on the object self: the value returned and the
\* attributes it leaves.  model_data['q_table'] raises KeyError without the
\* key, inside the try
agent_load_model(self, file) ==
    IF ~file.exists THEN [val |-> FALSE, self |-> self]
    ELSE IF Len(file.pickle) = 0 THEN [val |-> FALSE, self |-> self]
    ELSE LET model_data == file.pickle[1]
         IN  IF "q_table" \notin DOMAIN model_data THEN [val |-> FALSE, self |-> self]
             ELSE [val |-> TRUE,
                   self |-> [self EXCEPT
                      !.q_table = model_data.q_table,
                      !.epsilon = get(model_data, "epsilon", self.epsilon),
                      !.total_episodes = get(model_data, "total_episodes", 0),
                      !.total_states_learned = get(model_data, "total_states_learned", 0)]]

\* QLearningTrader.load_model on the object self
trader_load_model(self, file) ==
    IF ~file.exists THEN [val |-> FALSE, self |-> self]
    ELSE IF Len(file.pickle) = 0 THEN [val |-> FALSE, self |-> self]
    ELSE LET model_data == file.pickle[1]
         IN  [val |-> TRUE,
              self |-> [self EXCEPT
                 !.q_table = get(model_data, "q_table", <<>>),
                 !.epsilon = get(model_data, "epsilon", self.epsilon),
                 !.total_episodes = get(model_data, "total_episodes", 0),
                 !.win_streak = get(model_data, "win_streak", 0),
                 !.loss_streak = get(model_data, "loss_streak", 0)]]

\* the object takes the attributes of self
Becomes(self) ==
    /\ q_table' = self.q_table
    /\ epsilon' = self.epsilon
    /\ total_episodes' = self.total_episodes
    /\ total_states_learned' = self.total_states_learned
    /\ win_streak' = self.win_streak
    /\ loss_streak' = self.loss_streak

\* QLearningAgent.save_model(filepath)
save_model ==
    /\ agent = "QLearningAgent"
    /\ call.n < MaxPersistCalls
    /\ model_file' = [exists |-> TRUE, pickle |-> <<agent_model_data(attributes)>>]
    /\ call' = [method |-> "save_model", args |-> <<>>, result |-> <<>>, n |-> call.n + 1]
    /\ UNCHANGED <<breaker, workflow_result, tool_result, trading, agent, q_table, epsilon,
                   experience_buffer, win_streak, loss_streak, stored,
                   total_states_learned, total_episodes>>

\* QLearningTrader.save_model(file_path)
trader_save_model ==
    /\ agent = "QLearningTrader"
    /\ call.n < MaxPersistCalls
    /\ model_file' = [exists |-> TRUE, pickle |-> <<trader_model_data(attributes)>>]
    /\ call' = [method |-> "save_model", args |-> <<>>, result |-> <<>>, n |-> call.n + 1]
    /\ UNCHANGED <<breaker, workflow_result, tool_result, trading, agent, q_table, epsilon,
                   experience_buffer, win_streak, loss_streak, stored,
                   total_states_learned, total_episodes>>

\* QLearningAgent.load_model(filepath); args: the attributes the call found
load_model ==
    /\ agent = "QLearningAgent"
    /\ call.n < MaxPersistCalls
    /\ LET r == agent_load_model(attributes, model_file)
       IN  /\ Becomes(r.self)
           /\ call' = [method |-> "load_model", args |-> <<attributes>>,
                       result |-> <<r.val>>, n |-> call.n + 1]
    /\ UNCHANGED <<breaker, workflow_result, tool_result, trading, agent,
                   experience_buffer, stored, model_file>>

\* QLearningTrader.load_model(file_path)
trader_load_model_call ==
    /\ agent = "QLearningTrader"
    /\ call.n < MaxPersistCalls
    /\ LET r == trader_load_model(attributes, model_file)
       IN  /\ Becomes(r.self)
           /\ call' = [method |-> "load_model", args |-> <<attributes>>,
                       result |-> <<r.val>>, n |-> call.n + 1]
    /\ UNCHANGED <<breaker, workflow_result, tool_result, trading, agent,
                   experience_buffer, stored, model_file>>

\* QLearningAgent(...) or QLearningTrader(...): a new object of the class,
\* as a bot constructs one at its start; the file stays
new_agent ==
    /\ agent \in Agents
    /\ call.n < MaxPersistCalls
    /\ call.method # "__init__"
    /\ Becomes(new_attributes)
    /\ experience_buffer' = <<>>
    /\ call' = [method |-> "__init__", args |-> <<>>, result |-> <<>>, n |-> call.n + 1]
    /\ UNCHANGED <<breaker, workflow_result, tool_result, trading, agent, stored, model_file>>

\* a file an earlier process of the same class saved
SavedFiles(class) ==
    LET self == [ q_table |-> [s \in {"s1"} |-> <<100, 0, 0>>], epsilon |-> 5000,
                  total_episodes |-> 1, total_states_learned |-> 1,
                  win_streak |-> 2, loss_streak |-> 0 ]
    IN  { [exists |-> TRUE,
           pickle |-> <<IF class = "QLearningAgent" THEN agent_model_data(self)
                        ELSE trader_model_data(self)>>] }

\* a fresh agent of either class; at the model path no file, a file that
\* does not unpickle, or a saved model
InitPersist ==
    /\ InitIdle
    /\ agent \in Agents
    /\ q_table = <<>>
    /\ epsilon = 10000
    /\ experience_buffer = <<>>
    /\ win_streak = 0
    /\ loss_streak = 0
    /\ stored = <<>>
    /\ total_states_learned = 0
    /\ total_episodes = 0
    /\ model_file \in {MissingFile, CorruptFile} \cup SavedFiles(agent)
    /\ call = NoCall

NextPersist ==
    \/ update_q_value
    \/ trader_update_q_value
    \/ decay_epsilon
    \/ save_model
    \/ trader_save_model
    \/ load_model
    \/ trader_load_model_call
    \/ new_agent

SpecPersist == InitPersist /\ [][NextPersist]_vars
(***************************************************************************)
(* SpecTable: every operation that reads or writes the Q-table, on a fresh *)
(* agent of either class: choose_action, get_action_confidence,            *)
(* update_q_value, and the replay of stored experiences.                   *)
(***************************************************************************)
\* QLearningAgent.choose_action(state, training): get_q_values runs before
\* the draw.  random: whether `training and random.random() < self.epsilon`
\* holds
agent_choose_action ==
    /\ agent = "QLearningAgent"
    /\ call.n < MaxCalls
    /\ \E state \in StateKeys, random \in BOOLEAN :
        LET table == initialized(q_table, state)
        IN  /\ q_table' = table
            /\ IF random /\ epsilon > 0
               THEN \E action \in Actions :
                    call' = [method |-> "choose_action", args |-> <<state, TRUE>>,
                             result |-> <<action>>, n |-> call.n + 1]
               ELSE call' = [method |-> "choose_action", args |-> <<state, FALSE>>,
                             result |-> <<argmax(table[state])>>, n |-> call.n + 1]
    /\ total_states_learned' = total_states_learned + inserted(q_table, q_table')
    /\ UNCHANGED <<breaker, workflow_result, tool_result, trading, agent, epsilon,
                   experience_buffer, win_streak, loss_streak, stored,
                   total_episodes, model_file>>

NextTable ==
    \/ update_q_value
    \/ trader_update_q_value
    \/ get_action_confidence
    \/ agent_choose_action
    \/ choose_action
    \/ store_experience
    \/ add_experience
    \/ replay_experiences
    \/ replay_experience

SpecTable == InitAgent /\ [][NextTable]_vars
(***************************************************************************)
(* SpecStateKey: steps 4 to 7 of TradingBot.run_trading_cycle for a bot    *)
(* without a position: the indicators, the signal, the state handed to the *)
(* RL agent and the key the agent makes of it.  The key is kept as the     *)
(* tuple of its seven parts, which the f-string joins with "|".            *)
(***************************************************************************)
\* market_context as get_market_context returns it: <<>> for None
MarketContexts ==
    { <<>>,
      <<[fear_greed_index |-> 20, btc_trend |-> "down", market_regime |-> "risk_off"]>> }

\* TradingBot.prepare_rl_state(indicators, market_context) with no position
\* open: position_pnl = 0.0, has_position = 0
prepare_rl_state(indicators, market_context) ==
    LET state == [ signal_strength |-> get(indicators, "signal_strength", 0),
                   rsi |-> get(indicators, "rsi", 50),
                   macd_histogram |-> get(indicators, "macd_histogram", 0),
                   position_pnl |-> 0,
                   has_position |-> 0 ]
    IN  IF market_context = <<>> THEN state
        ELSE [ signal_strength |-> state.signal_strength,
               rsi |-> state.rsi,
               macd_histogram |-> state.macd_histogram,
               position_pnl |-> state.position_pnl,
               has_position |-> state.has_position,
               fear_greed_index |-> get(market_context[1], "fear_greed_index", 50),
               btc_trend |-> get(market_context[1], "btc_trend", "neutral"),
               market_regime |-> get(market_context[1], "market_regime", "neutral") ]

\* QLearningAgent.get_state_key(state): sig, rsi, macd, fg, pnl, btc, regime
get_state_key(state) ==
    << _discretize(get(state, "signal_strength", 0), <<-10, -3, -1, 1, 3, 10>>),
       _discretize(get(state, "rsi", 50), <<30, 40, 50, 60, 70>>),
       _discretize(get(state, "macd_histogram", 0), <<-10, -1, 0, 1, 10>>),
       _discretize(get(state, "fear_greed_index", 50), <<25, 45, 55, 75>>),
       _discretize(get(state, "position_pnl", 0), <<-5, -2, 0, 2, 5>>),
       get(state, "btc_trend", "neutral"),
       get(state, "market_regime", "neutral") >>

\* steps 5-7 of run_trading_cycle on the indicators and market context held
\* in call.args: the signal strength of the cycle and the state key
\* get_action_confidence looks up
rl_state_key ==
    /\ bot = "None"
    /\ call.method = "None"
    /\ Len(call.args) = 2
    /\ LET indicators == call.args[1]
           signal_strength == generate_signal(indicators)[2]
           rl_state == prepare_rl_state(indicators, call.args[2])
       IN  call' = [call EXCEPT !.method = "run_trading_cycle",
                                !.result = <<signal_strength, get_state_key(rl_state)>>,
                                !.n = 1]
    /\ UNCHANGED <<breaker, workflow_result, tool_result, trading, agent, q_table, epsilon,
                   experience_buffer, win_streak, loss_streak, stored,
                   total_states_learned, total_episodes, model_file>>

\* the indicators calculate_all_indicators returned and the market context
InitStateKey ==
    /\ InitIdle
    /\ agent = "QLearningAgent"
    /\ q_table = <<>>
    /\ epsilon = 10000
    /\ experience_buffer = <<>>
    /\ win_streak = 0
    /\ loss_streak = 0
    /\ stored = <<>>
    /\ total_states_learned = 0
    /\ total_episodes = 0
    /\ model_file = MissingFile
    /\ \E indicators \in IndicatorSnapshots, market_context \in MarketContexts :
        call = [NoCall EXCEPT !.args = <<indicators, market_context>>]

NextStateKey == rl_state_key

SpecStateKey == InitStateKey /\ [][NextStateKey]_vars
(***************************************************************************)
(* SpecTools: the guardian's tools set_circuit_breaker_warning and         *)
(* start_circuit_breaker_recovery of                                       *)
(* src/src/tools/circuit_breaker_tools.py on the guardian thread, next to  *)
(* trigger and clear calls on the main thread.  Each tool calls the        *)
(* breaker and then builds the JSON it returns; tool_result keeps its      *)
(* "success" and "status".  Not modelled: the except branch (json.loads of *)
(* the details failing).                                                   *)
(***************************************************************************)
\* the result set_circuit_breaker_warning builds once set_warning has
\* returned
set_warning_report == [success |-> "True", status |-> "WARNING"]

\* the result of start_circuit_breaker_recovery, current_status being what
\* its get_status call returned
start_recovery_report(current_status) ==
    IF current_status # "TRIGGERED"
    THEN [success |-> "False", status |-> current_status]
    ELSE [success |-> "True", status |-> "RECOVERING"]

\* no tool call under way on the thread
ToolIdle(t) == tool_result.stage \in {"None", "done"} /\ pc[t] = "idle"

\* set_circuit_breaker_warning: cb_state.set_warning(reason, details)
set_circuit_breaker_warning(t) ==
    /\ ToolIdle(t)
    /\ \E a \in WarningInputs : Call(t, "set_warning", a)
    /\ tool_result' = [tool |-> "set_circuit_breaker_warning", stage |-> "set_warning",
                       result |-> NoReport]
    /\ UNCHANGED <<workflow_result, trading, learning>>

\* set_circuit_breaker_warning: result = {...}; return json.dumps(result)
set_circuit_breaker_warning_return(t) ==
    /\ tool_result.stage = "set_warning"
    /\ pc[t] = "idle"
    /\ tool_result' = [tool_result EXCEPT !.stage = "done", !.result = set_warning_report]
    /\ UNCHANGED <<breaker, workflow_result, trading, learning>>

\* start_circuit_breaker_recovery: current_status = cb_state.get_status()
start_circuit_breaker_recovery(t) ==
    /\ ToolIdle(t)
    /\ Call(t, "get_status", NoArg)
    /\ tool_result' = [tool |-> "start_circuit_breaker_recovery", stage |-> "get_status",
                       result |-> NoReport]
    /\ UNCHANGED <<workflow_result, trading, learning>>

\* if current_status != TRIGGERED: return the refusal; else
\* cb_state.start_recovery()
start_circuit_breaker_recovery_check(t) ==
    /\ tool_result.stage = "get_status"
    /\ pc[t] = "idle"
    /\ IF ret[t].val # "TRIGGERED"
       THEN /\ tool_result' = [tool_result EXCEPT !.stage = "done",
                                                  !.result = start_recovery_report(ret[t].val)]
            /\ UNCHANGED breaker
       ELSE /\ tool_result' = [tool_result EXCEPT !.stage = "start_recovery"]
            /\ pc' = [pc EXCEPT ![t] = "lock"]
            /\ op' = [op EXCEPT ![t] = "start_recovery"]
            /\ arg' = [arg EXCEPT ![t] = NoArg]
            /\ UNCHANGED <<now, _circuit_breaker_state, created, cb, _state, lock, stable,
                           k, loc, ret>>
    /\ UNCHANGED <<workflow_result, trading, learning>>

\* start_circuit_breaker_recovery: result = {...}; return json.dumps(result);
\* the call was made because current_status was TRIGGERED
start_circuit_breaker_recovery_return(t) ==
    /\ tool_result.stage = "start_recovery"
    /\ pc[t] = "idle"
    /\ tool_result' = [tool_result EXCEPT !.stage = "done",
                                          !.result = start_recovery_report("TRIGGERED")]
    /\ UNCHANGED <<breaker, workflow_result, trading, learning>>

Tools(t) ==
    \/ set_circuit_breaker_warning(t)
    \/ set_circuit_breaker_warning_return(t)
    \/ start_circuit_breaker_recovery(t)
    \/ start_circuit_breaker_recovery_check(t)
    \/ start_circuit_breaker_recovery_return(t)

\* trigger and clear calls of another thread
ConcurrentCalls(t) ==
    \/ \E a \in TriggerInputs :
        /\ Self(t) # 0
        /\ _state[Self(t)].total_triggers < MaxTriggers
        /\ Call(t, "trigger", a)
        /\ UNCHANGED callers
    \/ \E a \in ClearInputs :
        /\ Self(t) # 0
        /\ _state[Self(t)].capital_saved + a.capital_saved <= MaxCapital
        /\ Call(t, "clear", a)
        /\ UNCHANGED callers

NextTools ==
    \/ Tools("guardian")
    \/ ConcurrentCalls("main")
    \/ Status("guardian")
    \/ \E t \in Threads : Transitions(t)
    \/ \E t \in Threads : Nested(t)

SpecTools == Init /\ [][NextTools]_vars
(***************************************************************************)
(* Properties.                                                             *)
(***************************************************************************)
\* the instance every thread of Spec, SpecCrew and SpecBot shares; what its
\* last completed method call left
shared == stable[_circuit_breaker_state]

C2_SelfTestReturns ==
    \A t \in Threads : ~(pc[t] = "get_status" /\ lock[Self(t)] = t)

\* C3 (FairSpecLock): every trigger() call returns True or False.
C3_TriggerReturns ==
    \A t \in Threads : (op[t] = "trigger") ~> (ret[t].val \in {"True", "False"})

\* C4 (Spec): what a reader returns is the state the last completed
\* transition left: never a triggered_at without its trigger_reason, never
\* TRIGGERED with total_triggers not yet incremented.
C4_AtomicReads ==
    [][\A t \in Threads :
        (pc[t] = "read" /\ pc'[t] = "idle") =>
            /\ op[t] = "get_status" => ret'[t].val = stable[Self(t)].status
            /\ op[t] = "get_full_state" =>
                /\ ret'[t].state = <<stable[Self(t)]>>
                /\ ret'[t].state[1].triggered_at # 0 => ret'[t].state[1].trigger_reason # "None"
                /\ ret'[t].state[1].status = "TRIGGERED" => ret'[t].state[1].total_triggers > 0]_vars

\* C4, its case: get_full_state is called while trigger has written
\* triggered_at and not yet trigger_reason; the reader waits for the lock
C4_Witness ==
    /\ op["guardian"] = "trigger" /\ pc["guardian"] = "write"
    /\ _state[_circuit_breaker_state].triggered_at # 0
    /\ _state[_circuit_breaker_state].trigger_reason = "None"
    /\ op["main"] = "get_full_state" /\ pc["main"] = "lock"

\* C5 (FairSpecLock): a set_warning() call on a SAFE breaker makes it
\* WARNING, a start_recovery() call on a TRIGGERED breaker makes it
\* RECOVERING.
C5_GuardedTransitions ==
    \A t \in Threads :
        \A i \in Instances :
            /\ (Self(t) = i /\ op[t] = "set_warning" /\ pc[t] = "get_status"
                    /\ _state[i].status = "SAFE")
                  ~> (_state[i].status = "WARNING")
            /\ (Self(t) = i /\ op[t] = "start_recovery" /\ pc[t] = "get_status"
                    /\ _state[i].status = "TRIGGERED")
                  ~> (_state[i].status = "RECOVERING")

\* C6 (Spec): clear(capital_saved) returns with status SAFE, triggered_at,
\* trigger_reason and recovery_started_at null, trigger_details empty,
\* capital_saved increased by the argument, total_triggers unchanged, and a
\* downtime of 0 when there was no trigger timestamp.
C6_Clear ==
    [][\A t \in Threads :
        (op[t] = "clear" /\ pc[t] = "write" /\ pc'[t] = "idle") =>
            LET before == stable[Self(t)]
                after == _state'[Self(t)]
            IN  /\ after.status = "SAFE"
                /\ after.triggered_at = 0
                /\ after.trigger_reason = "None"
                /\ after.recovery_started_at = 0
                /\ after.trigger_details = "{}"
                /\ after.capital_saved = before.capital_saved + arg[t].capital_saved
                /\ after.total_triggers = before.total_triggers
                /\ before.triggered_at = 0 => after.downtime_seconds = 0]_vars

\* C6, its case: clear(1) called on a RECOVERING breaker is at its last write
C6_Witness ==
    /\ op["guardian"] = "clear" /\ pc["guardian"] = "write" /\ k["guardian"] = 7
    /\ arg["guardian"].capital_saved = 1
    /\ shared.status = "RECOVERING"
    /\ shared.recovery_started_at # 0

C8_SingleInstance ==
    \A t, u \in Threads : (cb[t] # 0 /\ cb[u] # 0) => cb[t] = cb[u]

C10_ConfidenceGate ==
    (cycle.reason = "decision" /\ cycle.confidence < min_confidence) =>
        /\ cycle.final_decision = "HOLD"
        /\ cycle.order = "None"
        /\ current_position = cycle.position

\* C10, its case: a losing LONG position under a HOLD signal, which is sold
\* at any confidence from 0.3 on, met with a confidence of 0.29
C10_Witness ==
    /\ bot = "trading_bot"
    /\ cycle.reason = "decision"
    /\ cycle.confidence = 29
    /\ cycle.position = "LONG" /\ cycle.pnl < 0 /\ cycle.signal = "HOLD"
    /\ cycle.final_decision = "HOLD"

\* C11 (SpecBot): with no open position and a confidence of 0.3 or more, the
\* final action is BUY only if the RL action and the technical signal are
\* BUY and the strength is at least the threshold, SELL only if both are
\* SELL and the strength is at most minus the threshold, and HOLD otherwise.
C11_AlignedEntry ==
    (cycle.reason = "decision" /\ cycle.position = "None"
            /\ cycle.confidence >= min_confidence) =>
        /\ cycle.final_decision \in ACTION_NAMES
        /\ cycle.final_decision = "BUY" =>
            /\ cycle.rl_action = "BUY" /\ cycle.signal = "BUY"
            /\ cycle.signal_strength >= min_signal_threshold
        /\ cycle.final_decision = "SELL" =>
            /\ cycle.rl_action = "SELL" /\ cycle.signal = "SELL"
            /\ cycle.signal_strength <= -min_signal_threshold

\* C12 (SpecBot): a decision on an open position with a negative PnL, a HOLD
\* signal and a confidence of 0.3 or more is the action that closes the
\* position (SELL for LONG, BUY for SHORT), whatever the RL action.
C12_CutLoss ==
    (cycle.reason = "decision" /\ cycle.position # "None" /\ cycle.pnl < 0
            /\ cycle.signal = "HOLD" /\ cycle.confidence >= min_confidence) =>
        cycle.final_decision = (IF cycle.position = "LONG" THEN "SELL" ELSE "BUY")

\* C12, its case: a losing SHORT position under a HOLD signal that the RL
\* action would add to (SELL) is bought back
C12_Witness ==
    /\ bot = "rl_trading_bot"
    /\ cycle.reason = "decision"
    /\ cycle.position = "SHORT" /\ cycle.pnl < 0 /\ cycle.signal = "HOLD"
    /\ cycle.rl_action = "SELL" /\ cycle.confidence >= min_confidence
    /\ cycle.final_decision = "BUY"

\* the contribution of one indicator check of weight w
weight(bullish, bearish, w) == IF bullish THEN w ELSE IF bearish THEN -w ELSE 0

\* C13 (SpecScore): the strength either scorer returns is the sum of the
\* seven weights (MACD 1, VWAP 1, EMA9/EMA21 1, EMA9/SMA50 2, EMA21/SMA50 3,
\* RSI 1, Bollinger 1), lies in -10..10, and the direction is BUY from the
\* threshold up, SELL from minus the threshold down, HOLD between.
C13_SignalScore ==
    call.method \in {"generate_signal", "generate_signal_from_indicators"} =>
        LET i == call.args[1]
            direction == call.result[1]
            strength == call.result[2]
        IN  /\ strength =
                  weight(i.macd > i.macd_signal /\ i.macd_histogram > 0,
                         i.macd < i.macd_signal /\ i.macd_histogram < 0, 1)
                + weight(i.price > i.vwap, i.price <= i.vwap, 1)
                + weight(i.ema9 > i.ema21, i.ema9 <= i.ema21, 1)
                + weight(i.ema9 > i.sma50, i.ema9 <= i.sma50, 2)
                + weight(i.ema21 > i.sma50, i.ema21 <= i.sma50, 3)
                + weight(i.rsi < 30, i.rsi > 70, 1)
                + weight(i.price < i.bb_lower, i.price > i.bb_upper, 1)
            /\ strength \in -10..10
            /\ direction = "BUY" <=> strength >= min_signal_threshold
            /\ direction = "SELL" <=> strength <= -min_signal_threshold
            /\ direction \in ACTION_NAMES

\* C14 (SpecDiscretize): _discretize(value, bins) is the number of the first
\* threshold the value is strictly less than, len(bins) when there is none:
\* it lies in 0..len(bins), a value equal to a threshold is in the bucket
\* above it, and no larger value gets a smaller bucket.
C14_Bucketing ==
    call.method = "_discretize" =>
        LET value == call.args[1]
            bins == call.args[2]
            bucket == call.result[1]
        IN  /\ bucket \in 0..Len(bins)
            /\ bucket < Len(bins) => value < bins[bucket + 1]
            /\ \A j \in 1..Len(bins) : j <= bucket => value >= bins[j]
            /\ \A j \in 1..Len(bins) : value = bins[j] => bucket = j
            /\ \A other \in DiscretizeValues :
                other >= value => _discretize(other, bins) >= bucket

\* C14, its case: an RSI of exactly 30, the first threshold of its list, is
\* put in bucket 1
C14_Witness ==
    /\ call.method = "_discretize"
    /\ call.args = <<30, <<30, 40, 50, 60, 70>> >>
    /\ call.result = <<1>>

\* C15 (SpecLearn): a confidence returned by get_action_confidence or
\* choose_action lies in [0, 1]; it is 0 with an exploratory random action
\* and 0 with a greedy action on a state whose three action-values are equal.
C15_ConfidenceRange ==
    call.method \in {"get_action_confidence", "choose_action"} =>
        LET state == call.args[1]
            exploratory == call.args[2]
            confidence == call.result[2]
        IN  /\ confidence \in 0..1000
            /\ exploratory => confidence = 0
            /\ (~exploratory /\ max(q_table[state]) = min(q_table[state]))
                  => confidence = 0

\* Q(state, action) as a table holds it: 0 for a state it has no entry for
value(table, state_key, action) ==
    IF state_key \in DOMAIN table THEN table[state_key][action + 1] ELSE 0

\* C16 (SpecLearn): update_q_value(s, a, r, s', done) of QLearningAgent sets
\* Q(s,a) to Q(s,a) + alpha*(r + gamma*max Q(s',.) - Q(s,a)), with 0 for the
\* maximum when done, and leaves every other action-value as it was.
C16_UpdateRule ==
    [][(agent = "QLearningAgent" /\ call'.method = "update_q_value"
            /\ call'.n = call.n + 1) =>
        LET state == call'.args[1]
            action == call'.args[2]
            reward == call'.args[3]
            next_state == call'.args[4]
            done == call'.args[5]
            current_q == value(q_table, state, action)
            best == CHOOSE q \in {value(q_table, next_state, b) : b \in Actions} :
                        \A b \in Actions : q >= value(q_table, next_state, b)
            bootstrap == IF done THEN 0 ELSE best
        IN  /\ value(q_table', state, action) =
                  current_q + times(reward + times(bootstrap, discount_factor) - current_q,
                                    learning_rate)
            /\ done => value(q_table', state, action) =
                  current_q + times(reward - current_q, learning_rate)
            /\ \A s \in StateKeys, b \in Actions :
                  <<s, b>> # <<state, action>> =>
                      value(q_table', s, b) = value(q_table, s, b)]_vars

\* C16, its case: an update with done=True whose next state is another
\* state that holds a positive action-value
C16_Witness ==
    /\ agent = "QLearningAgent"
    /\ call.method = "update_q_value"
    /\ call.args[5]
    /\ call.args[4] # call.args[1]
    /\ call.args[4] \in DOMAIN q_table
    /\ max(q_table[call.args[4]]) > 0

\* reward / (1 - gamma)
limit(reward) ==
    (reward * discount_factor[2]) \div (discount_factor[2] - discount_factor[1])

C18_BoundedBuffer ==
    LET n == Len(stored)
        held == IF n < buffer_size THEN n ELSE buffer_size
    IN  /\ Len(experience_buffer) = held
        /\ \A i \in 1..held : experience_buffer[i] = stored[n - held + i]

\* C18, its case: one experience more than the capacity has been stored, and
\* the one stored first differs from the one stored second
C18_Witness ==
    /\ Len(stored) = buffer_size + 1
    /\ stored[1] # stored[2]
    /\ experience_buffer[1] = stored[2]

\* C19 (SpecReplay): a replay on a buffer of at least batch_size items
\* applies the Q-update to batch_size distinct items and then sets epsilon
\* to max(epsilon_min, epsilon * epsilon_decay); on a smaller buffer it
\* changes neither the Q-table nor epsilon.
C19_Replay ==
    [][(call'.n = call.n + 1
            /\ call'.method \in {"replay_experiences", "replay_experience"}) =>
        IF Len(experience_buffer) >= batch_size
        THEN /\ \E indices \in Samples(Len(experience_buffer), batch_size) :
                  q_table' = replay_batch(agent, q_table,
                      [i \in 1..batch_size |-> experience_buffer[indices[i]]], 1)
             /\ epsilon' = IF times(epsilon, epsilon_decay) > epsilon_min
                           THEN times(epsilon, epsilon_decay)
                           ELSE epsilon_min
        ELSE /\ q_table' = q_table
             /\ epsilon' = epsilon]_vars

\* C20 (SpecReward): without streak bonus and market context the reward of a
\* trade is +20 for a profit above 2%, +10 for a smaller profit, -10 for a
\* loss within 2% and -20 for a larger loss, and for every pnl the two
\* classes return the same value.
C20_RewardTiers ==
    (/\ call.method = "calculate_reward"
     /\ \/ agent = "QLearningAgent" /\ call.args[2] \in {0, 1} /\ call.args[4] = 0
        \/ agent = "QLearningTrader" /\ call.args[2] = 0 /\ call.args[3] = 0
              /\ call.args[4] = "None") =>
        LET pnl == call.args[1]
            reward == call.result[1]
        IN  /\ pnl > 200 => reward = 2000
            /\ (pnl > 0 /\ pnl <= 200) => reward = 1000
            /\ (pnl < 0 /\ pnl >= -200) => reward = -1000
            /\ pnl < -200 => reward = -2000
            /\ reward = agent_calculate_reward(0, pnl, 0, 0)
            /\ reward = trader_calculate_reward(pnl, 0, 0, "None").reward

\* the number of trades at the end of pnls that all have the given sign
\* (1: wins, -1: losses)
RECURSIVE unbroken_run(_, _)
unbroken_run(pnls, sign) ==
    IF pnls = <<>> THEN 0
    ELSE LET last == pnls[Len(pnls)][1]
         IN  IF (sign = 1 /\ last > 0) \/ (sign = -1 /\ last < 0)
             THEN 1 + unbroken_run(SubSeq(pnls, 1, Len(pnls) - 1), sign)
             ELSE 0

\* what a call added to its reward for a streak: the reward less the tier
\* and market-trend terms, which are those of a call on counters at zero
streak_adjustment ==
    call.result[1] - trader_calculate_reward(call.args[1], 0, 0, call.args[4]).reward

\* C21 (SpecStreak): after every calculate_reward call of a sequence, the call
\* got +5 only if its trade is the third or later win of an unbroken run of
\* wins, -5 only if it is the third or later loss of an unbroken run of
\* losses, nothing if its pnl is 0; and the two counters are never both
\* positive.
C21_StreakBonus ==
    call.method = "calculate_reward" =>
        /\ streak_adjustment = 500 => call.args[1] > 0 /\ unbroken_run(stored, 1) >= 3
        /\ streak_adjustment = -500 => call.args[1] < 0 /\ unbroken_run(stored, -1) >= 3
        /\ call.args[1] = 0 => streak_adjustment = 0
        /\ ~(win_streak > 0 /\ loss_streak > 0)

\* C21, its case: a break-even call made right after three wins
C21_Witness ==
    /\ call.method = "calculate_reward"
    /\ Len(stored) = 4
    /\ call.args[1] = 0
    /\ unbroken_run(SubSeq(stored, 1, 3), 1) = 3

\* C22 (SpecPersist): a load_model that found no file, or a file that does
\* not unpickle, has returned False and left the object with an empty
\* Q-table.
C22_LoadFallback ==
    (call.method = "load_model" /\ call.result[1] = FALSE) => q_table = <<>>

\* what a load_model call on the object self would leave, the file being as
\* it is now
loaded(self) ==
    IF agent = "QLearningAgent" THEN agent_load_model(self, model_file)
    ELSE trader_load_model(self, model_file)

\* the attributes the round trip is about: the table, epsilon and the
\* counters of the class
same_model(a, b) ==
    /\ DOMAIN a.q_table = DOMAIN b.q_table
    /\ \A s \in DOMAIN a.q_table : a.q_table[s] = b.q_table[s]
    /\ a.epsilon = b.epsilon
    /\ a.total_episodes = b.total_episodes
    /\ agent = "QLearningAgent" => a.total_states_learned = b.total_states_learned

\* C23 (SpecPersist): right after a save_model, a load_model into the same
\* object or into a new one succeeds and gives the table, epsilon and
\* counters the object has; and an object that has just loaded a file
\* successfully has the table, epsilon and counters the file holds.
C23_RoundTrip ==
    /\ call.method = "save_model" =>
          \A self \in {attributes, new_attributes} :
              /\ loaded(self).val = TRUE
              /\ same_model(loaded(self).self, attributes)
    /\ (call.method = "load_model" /\ call.result[1] = TRUE) =>
          LET model_data == model_file.pickle[1]
          IN  /\ q_table = model_data.q_table
              /\ epsilon = model_data.epsilon
              /\ total_episodes = model_data.total_episodes
              /\ agent = "QLearningAgent" =>
                    total_states_learned = model_data.total_states_learned

\* C23, its case: a new object has loaded the file this run saved after
\* learning and after a change of epsilon
C23_Witness ==
    /\ call.method = "load_model"
    /\ call.result[1] = TRUE
    /\ call.args[1] = new_attributes
    /\ q_table # <<>>
    /\ model_file \notin SavedFiles(agent)
    /\ epsilon # new_attributes.epsilon

\* the methods that run the update rule
Updating == {"update_q_value", "replay_experiences", "replay_experience"}

\* C24 (SpecTable): over choose_action, get_action_confidence, update_q_value
\* and replay, a key of the Q-table is never removed, the values of a key
\* change only in an update or a replay, a key inserted by any other
\* operation holds three zeros, and QLearningAgent.total_states_learned is
\* always the number of keys.
C24_TableGrowth ==
    /\ [](agent = "QLearningAgent" => total_states_learned = Cardinality(DOMAIN q_table))
    /\ [][/\ DOMAIN q_table \subseteq DOMAIN q_table'
          /\ \A s \in DOMAIN q_table :
                q_table'[s] # q_table[s] => call'.method \in Updating
          /\ \A s \in DOMAIN q_table' \ DOMAIN q_table :
                q_table'[s] # zeros => call'.method \in Updating]_vars

\* C24, its case: an update has inserted two keys at once, and a lookup of
\* a known key came after it
C24_Witness ==
    /\ agent = "QLearningAgent"
    /\ call.method \in {"get_action_confidence", "choose_action"}
    /\ total_states_learned = 2
    /\ call.n = 2
    /\ \E s \in DOMAIN q_table : q_table[s] # zeros

\* C25 (SpecReplay): from epsilon >= epsilon_min on, no replay and no decay
\* of either class raises epsilon or takes it below epsilon_min.
C25_EpsilonFloor ==
    [][epsilon' <= epsilon /\ epsilon' >= epsilon_min]_vars

C29_KeyCarriesStrength ==
    call.method = "run_trading_cycle" =>
        call.result[2][1] = _discretize(call.result[1], <<-10, -3, -1, 1, 3, 10>>)

\* the breaker method m, called by the tool under way, returns on this step
ToolCallReturns(m) ==
    /\ tool_result.stage = m
    /\ op["guardian"] = m
    /\ pc'["guardian"] = "idle"

====
